---- MODULE Spec2Model ----
(***************************************************************************)
(* dotLOG: a document that starts with the marker line ".LOG" receives a   *)
(* timestamp at its end each time it is opened.                            *)
(*                                                                         *)
(* Strings are sequences of one-character strings, so that trimming,       *)
(* lower-casing, padding and splitting are computed character by           *)
(* character as the TypeScript code computes them.                         *)
(***************************************************************************)
EXTENDS Integers, Sequences, FiniteSets, TLC

VARIABLES
    call,           \* the unit under test of the pure-function specifications
    doc,            \* the host's TextDocument: lines, name, language id, scheme, flags
    activeEditor,   \* whether the host's active editor shows this document, and its selection
    isActive,       \* FileMonitor.isActive
    disposable,     \* FileMonitor.disposable: whether it holds a subscription (not null)
    listeners,      \* the host's open-event stream: subscriptions of the monitor that are live
    retryAttempts,  \* ErrorRecoveryService.retryAttempts, recovery key -> attempts
    task,           \* the handler of the document-open event in flight
    pending,        \* host apply-edit calls whose timeout has fired and that the host has not answered
    clock,          \* the Date the next getCurrentTimestamp reads
    hist            \* observations: counters and snapshots used to state properties

vars == <<call, doc, activeEditor, isActive, disposable, listeners, retryAttempts,
          task, pending, clock, hist>>

-----------------------------------------------------------------------------
(* Bounds of the model *)

MaxPad == 2         \* whitespace characters put around a first line
MaxOpens == 2       \* document-open events the host raises
MaxTimeouts == 1    \* apply-edit calls that outlive their timeout

-----------------------------------------------------------------------------
(* Strings *)

NL == "\n"

Whitespace == {" ", "\t", NL, "\r"}

RECURSIVE trimStart(_)
trimStart(s) ==
    IF s = <<>> THEN <<>>
    ELSE IF Head(s) \in Whitespace THEN trimStart(Tail(s)) ELSE s

RECURSIVE trimEnd(_)
trimEnd(s) ==
    IF s = <<>> THEN <<>>
    ELSE IF s[Len(s)] \in Whitespace THEN trimEnd(SubSeq(s, 1, Len(s) - 1)) ELSE s

\* String.prototype.trim
trim(s) == trimEnd(trimStart(s))

UpperToLower ==
    [c \in {"A","B","C","D","E","F","G","H","I","J","K","L","M","N","O","P","Q",
            "R","S","T","U","V","W","X","Y","Z"} |->
        CASE c = "A" -> "a" [] c = "B" -> "b" [] c = "C" -> "c" [] c = "D" -> "d"
          [] c = "E" -> "e" [] c = "F" -> "f" [] c = "G" -> "g" [] c = "H" -> "h"
          [] c = "I" -> "i" [] c = "J" -> "j" [] c = "K" -> "k" [] c = "L" -> "l"
          [] c = "M" -> "m" [] c = "N" -> "n" [] c = "O" -> "o" [] c = "P" -> "p"
          [] c = "Q" -> "q" [] c = "R" -> "r" [] c = "S" -> "s" [] c = "T" -> "t"
          [] c = "U" -> "u" [] c = "V" -> "v" [] c = "W" -> "w" [] c = "X" -> "x"
          [] c = "Y" -> "y" [] c = "Z" -> "z"]

\* String.prototype.toLowerCase
toLowerCase(s) ==
    [i \in 1..Len(s) |-> IF s[i] \in DOMAIN UpperToLower THEN UpperToLower[s[i]] ELSE s[i]]

\* String.prototype.endsWith
endsWith(s, suffix) ==
    /\ Len(suffix) <= Len(s)
    /\ SubSeq(s, Len(s) - Len(suffix) + 1, Len(s)) = suffix

\* String.prototype.startsWith
startsWith(s, prefix) ==
    /\ Len(prefix) <= Len(s)
    /\ SubSeq(s, 1, Len(prefix)) = prefix

Digits == <<"0","1","2","3","4","5","6","7","8","9">>

\* String(n) for a non-negative integer
RECURSIVE String(_)
String(n) ==
    IF n < 10 THEN <<Digits[n + 1]>>
    ELSE String(n \div 10) \o <<Digits[(n % 10) + 1]>>

\* String.prototype.padStart(targetLength, padChar)
RECURSIVE padStart(_, _, _)
padStart(s, targetLength, c) ==
    IF Len(s) >= targetLength THEN s ELSE padStart(<<c>> \o s, targetLength, c)

\* the lines of a text: text.split('\n')
RECURSIVE splitLines(_)
splitLines(s) ==
    IF \A i \in 1..Len(s) : s[i] # NL THEN <<s>>
    ELSE LET p == CHOOSE i \in 1..Len(s) : s[i] = NL /\ \A j \in 1..(i - 1) : s[j] # NL
         IN  <<SubSeq(s, 1, p - 1)>> \o splitLines(SubSeq(s, p + 1, Len(s)))

\* the text of a sequence of lines: lines.join('\n')
RECURSIVE joinLines(_)
joinLines(ls) ==
    IF ls = <<>> THEN <<>>
    ELSE IF Len(ls) = 1 THEN ls[1]
    ELSE ls[1] \o <<NL>> \o joinLines(Tail(ls))

-----------------------------------------------------------------------------
(* types/index.ts *)

SupportedFileType == {"txt", "log", "md"}

null == "null"

-----------------------------------------------------------------------------
(* ContentAnalyzer *)

LOG_PREFIX == <<".", "L", "O", "G">>

SUPPORTED_EXTENSIONS == {<<"t","x","t">>, <<"l","o","g">>, <<"m","d">>}

\* fileName.match(/\.([^.]+)$/): whether the name matches, and the first
\* capture group.  The leftmost position that starts a match is a "."
\* followed by one or more characters other than "." up to the end of the name.
extensionMatch(fileName) ==
    LET starts == {p \in 1..Len(fileName) :
                      /\ fileName[p] = "."
                      /\ p < Len(fileName)
                      /\ \A q \in (p + 1)..Len(fileName) : fileName[q] # "."}
    IN  IF starts = {} THEN [matched |-> FALSE, group |-> <<>>]
        ELSE LET p == CHOOSE x \in starts : \A y \in starts : x <= y
             IN  [matched |-> TRUE, group |-> SubSeq(fileName, p + 1, Len(fileName))]

\* getFileType comparing the extension without lower-casing it
getFileType_caseSensitive(d) ==
    LET m == extensionMatch(d.fileName)
        extension == m.group
    IN  IF m.matched /\ extension \in SUPPORTED_EXTENSIONS
        THEN CASE extension = <<"t","x","t">> -> "txt"
               [] extension = <<"l","o","g">> -> "log"
               [] extension = <<"m","d">> -> "md"
        ELSE CASE d.languageId = "plaintext" -> "txt"
               [] d.languageId = "log" -> "log"
               [] d.languageId = "markdown" -> "md"
               [] OTHER -> null

getFileType(d) ==
    LET m == extensionMatch(d.fileName)
        extension == toLowerCase(m.group)
    IN  IF m.matched /\ extension \in SUPPORTED_EXTENSIONS
        THEN CASE extension = <<"t","x","t">> -> "txt"
               [] extension = <<"l","o","g">> -> "log"
               [] extension = <<"m","d">> -> "md"
        ELSE CASE d.languageId = "plaintext" -> "txt"
               [] d.languageId = "log" -> "log"
               [] d.languageId = "markdown" -> "md"
               [] OTHER -> null

lineCount(d) == Len(d.lines)

lineAt(d, n) == d.lines[n + 1]

\* shouldProcessDocument comparing the first line without trimming it
shouldProcessDocument_noTrim(d) ==
    IF lineCount(d) = 0 THEN FALSE
    ELSE LET firstLine == lineAt(d, 0)
             hasLogPrefix == firstLine = LOG_PREFIX
             fileType == getFileType(d)
             isSupportedType == fileType # null
         IN  hasLogPrefix /\ isSupportedType

\* shouldProcessDocument comparing the first line whatever its case
shouldProcessDocument_ignoreCase(d) ==
    IF lineCount(d) = 0 THEN FALSE
    ELSE LET firstLine == trim(lineAt(d, 0))
             hasLogPrefix == toLowerCase(firstLine) = toLowerCase(LOG_PREFIX)
             fileType == getFileType(d)
             isSupportedType == fileType # null
         IN  hasLogPrefix /\ isSupportedType

\* a read of the document that throws is caught: return false
shouldProcessDocument(d) ==
    IF d.unreadable # "no" THEN FALSE
    ELSE IF lineCount(d) = 0 THEN FALSE
    ELSE LET firstLine == trim(lineAt(d, 0))
             hasLogPrefix == firstLine = LOG_PREFIX
             fileType == getFileType(d)
             isSupportedType == fileType # null
         IN  hasLogPrefix /\ isSupportedType

analyzeContent(d) ==
    LET fileType == getFileType(d)
    IN  IF fileType = null
        THEN [success |-> FALSE, error |-> "Unsupported file type",
              errorCode |-> "UNSUPPORTED_FILE_TYPE"]
        ELSE [success |-> TRUE, fileType |-> fileType,
              shouldProcess |-> shouldProcessDocument(d)]

-----------------------------------------------------------------------------
(* TimestampService *)

\* formatTimestamp labelling noon AM
formatTimestamp_noonAM(date) ==
    LET year == date.year
        month == padStart(String(date.month + 1), 2, "0")
        day == padStart(String(date.date), 2, "0")
        hours24 == date.hours
        hours12 == IF hours24 = 0 THEN 12 ELSE IF hours24 > 12 THEN hours24 - 12 ELSE hours24
        ampm == IF hours24 > 12 THEN <<"P", "M">> ELSE <<"A", "M">>
        hours == padStart(String(hours12), 2, "0")
        minutes == padStart(String(date.minutes), 2, "0")
    IN  String(year) \o <<"-">> \o month \o <<"-">> \o day \o <<" ">> \o hours
          \o <<":">> \o minutes \o <<" ">> \o ampm

\* a Date is read through getFullYear, getMonth (0..11), getDate, getHours, getMinutes
formatTimestamp(date) ==
    LET year == date.year
        month == padStart(String(date.month + 1), 2, "0")
        day == padStart(String(date.date), 2, "0")
        hours24 == date.hours
        hours12 == IF hours24 = 0 THEN 12 ELSE IF hours24 > 12 THEN hours24 - 12 ELSE hours24
        ampm == IF hours24 >= 12 THEN <<"P", "M">> ELSE <<"A", "M">>
        hours == padStart(String(hours12), 2, "0")
        minutes == padStart(String(date.minutes), 2, "0")
    IN  String(year) \o <<"-">> \o month \o <<"-">> \o day \o <<" ">> \o hours
          \o <<":">> \o minutes \o <<" ">> \o ampm

generateTimestamp(now) == formatTimestamp(now)

getCurrentTimestamp(now) ==
    [success |-> TRUE, data |-> generateTimestamp(now), error |-> null]

-----------------------------------------------------------------------------
(* Format handlers *)

TextFileHandler_formatTimestamp(timestamp) == <<NL>> \o timestamp \o <<NL>>

LogFileHandler_formatTimestamp(timestamp) == <<NL>> \o timestamp \o <<NL>>

\* the markdown format with a level-1 heading
MarkdownFileHandler_formatTimestamp_h1(timestamp) == <<NL, "#", " ">> \o timestamp \o <<NL>>

MarkdownFileHandler_formatTimestamp(timestamp) == <<NL, "#", "#", " ">> \o timestamp \o <<NL>>

\* fileName.lastIndexOf(ch): the 0-based index of the last ch, or -1
lastIndexOf(s, ch) ==
    LET found == {i \in 1..Len(s) : s[i] = ch}
    IN  IF found = {} THEN -1 ELSE (CHOOSE i \in found : \A j \in found : j <= i) - 1

\* BaseFileHandler.getFileExtension
getFileExtension(d) ==
    LET fileName == d.fileName
        lastDotIndex == lastIndexOf(fileName, ".")
    IN  IF lastDotIndex > 0
        THEN toLowerCase(SubSeq(fileName, lastDotIndex + 2, Len(fileName)))
        ELSE <<>>

\* BaseFileHandler.hasLogPrefix
hasLogPrefix(d) ==
    IF lineCount(d) = 0 THEN FALSE
    ELSE LET firstLine == trim(lineAt(d, 0))
         IN  firstLine = <<".", "L", "O", "G">>

TextFileHandler_canHandle(d) == getFileExtension(d) = <<"t", "x", "t">> /\ hasLogPrefix(d)

LogFileHandler_canHandle(d) == getFileExtension(d) = <<"l", "o", "g">> /\ hasLogPrefix(d)

MarkdownFileHandler_canHandle(d) == getFileExtension(d) = <<"m", "d">> /\ hasLogPrefix(d)

\* canHandle(document) of the handler registered for a file type
handlerCanHandle(fileType, d) ==
    CASE fileType = "txt" -> TextFileHandler_canHandle(d)
      [] fileType = "log" -> LogFileHandler_canHandle(d)
      [] fileType = "md" -> MarkdownFileHandler_canHandle(d)

\* the handler registered for a file type formats the timestamp
handlerFormatTimestamp(fileType, timestamp) ==
    CASE fileType = "txt" -> TextFileHandler_formatTimestamp(timestamp)
      [] fileType = "log" -> LogFileHandler_formatTimestamp(timestamp)
      [] fileType = "md" -> MarkdownFileHandler_formatTimestamp(timestamp)

-----------------------------------------------------------------------------
(* DocumentEditor *)

DocumentEditor_maxRetries == 1

SchemeChars(scheme) ==
    CASE scheme = "file" -> <<"f", "i", "l", "e">>
      [] scheme = "untitled" -> <<"u", "n", "t", "i", "t", "l", "e", "d">>
      [] scheme = "git" -> <<"g", "i", "t">>

\* document.uri.toString()
uriString(d) == SchemeChars(d.scheme) \o <<":">> \o d.fileName

\* canModifyDocument that does not look at the closed flag
canModifyDocument_ignoreClosed(d) ==
    IF d.isUntitled /\ d.isDirty = FALSE THEN TRUE
    ELSE IF d.scheme = "file" THEN TRUE
    ELSE d.scheme = "untitled"

canModifyDocument(d) ==
    IF d.isClosed THEN FALSE
    ELSE IF d.isUntitled /\ d.isDirty = FALSE THEN TRUE
    ELSE IF d.scheme = "file" THEN TRUE
    ELSE d.scheme = "untitled"

\* prepareTextForInsertion that never puts a line break before the text
prepareTextForInsertion_noBreakBefore(d, text) ==
    IF lineCount(d) = 0 THEN text
    ELSE IF ~endsWith(text, <<NL>>) THEN text \o <<NL>> ELSE text

prepareTextForInsertion(d, text) ==
    IF lineCount(d) = 0 THEN text
    ELSE LET lastLine == lineAt(d, lineCount(d) - 1)
             needsNewlineBefore == Len(lastLine) > 0
             needsNewlineAfter == ~endsWith(text, <<NL>>)
             withBefore == IF needsNewlineBefore THEN <<NL>> \o text ELSE text
         IN  IF needsNewlineAfter THEN withBefore \o <<NL>> ELSE withBefore

\* an end position at the start of the last line
endPosition_lineStart(d) == [line |-> lineCount(d) - 1, character |-> 0]

\* the end of the document: new vscode.Position(lastLine, lastLineText.length)
endPosition(d) ==
    [line |-> lineCount(d) - 1, character |-> Len(lineAt(d, lineCount(d) - 1))]

\* the WorkspaceEdit that insertTextAtEnd builds: edit.insert(uri, endPosition, textToInsert)
buildEdit(d, text) ==
    [line |-> endPosition(d).line, character |-> endPosition(d).character,
     text |-> prepareTextForInsertion(d, text)]

\* the host applies an insert edit at its position in the lines of the buffer
applyEdit(lines, edit) ==
    LET target == lines[edit.line + 1]
        pre == SubSeq(target, 1, edit.character)
        post == SubSeq(target, edit.character + 1, Len(target))
        parts == splitLines(edit.text)
        n == Len(parts)
        inserted == IF n = 1 THEN <<pre \o parts[1] \o post>>
                    ELSE <<pre \o parts[1]>> \o SubSeq(parts, 2, n - 1) \o <<parts[n] \o post>>
    IN  SubSeq(lines, 1, edit.line) \o inserted \o SubSeq(lines, edit.line + 2, Len(lines))

\* insertTextAtEnd with a host that applies the edit at the first call: the
\* edit handed to the host and the lines of the buffer afterwards
insertTextAtEnd(d, text) ==
    IF ~canModifyDocument(d)
    THEN [success |-> FALSE, errorCode |-> "PERMISSION_DENIED", edit |-> null,
          lines |-> d.lines]
    ELSE [success |-> TRUE, errorCode |-> null, edit |-> buildEdit(d, text),
          lines |-> applyEdit(d.lines, buildEdit(d, text))]

\* new vscode.Selection(anchor, active)
Selection(anchor, active) == [anchor |-> anchor, active |-> active]

\* a selection the extension has not set: a range at no position of a document
NoSelection == Selection([line |-> 0 - 1, character |-> 0 - 1],
                         [line |-> 0 - 1, character |-> 0 - 1])

\* positionCursorAtEnd that accepts whatever editor is active
positionCursorAtEnd_anyEditor(editor, d) ==
    IF ~editor.shown
    THEN [success |-> FALSE, errorCode |-> "CURSOR_POSITIONING_FAILED", editor |-> editor,
          lines |-> d.lines]
    ELSE [success |-> TRUE, errorCode |-> null,
          editor |-> [editor EXCEPT !.selection = Selection(endPosition(d), endPosition(d))],
          lines |-> d.lines]

\* positionCursorAtEnd: editor is vscode.window.activeTextEditor (shown is
\* !!editor, uri is editor.document.uri.toString()); the result carries the
\* editor and the lines of the document as the call leaves them
positionCursorAtEnd(editor, d) ==
    IF ~editor.shown \/ editor.uri # uriString(d)
    THEN [success |-> FALSE, errorCode |-> "CURSOR_POSITIONING_FAILED", editor |-> editor,
          lines |-> d.lines]
    ELSE [success |-> TRUE, errorCode |-> null,
          editor |-> [editor EXCEPT !.selection = Selection(endPosition(d), endPosition(d))],
          lines |-> d.lines]

-----------------------------------------------------------------------------
(* ErrorRecoveryService *)

ErrorRecoveryService_maxRetries == 3

\* `${document.uri.toString()}-${operation}` with operation 'applyEdit'
recoveryKey(d) ==
    uriString(d) \o <<"-", "a", "p", "p", "l", "y", "E", "d", "i", "t">>

\* Map.get(key) || 0
attemptsOf(attempts, key) == IF key \in DOMAIN attempts THEN attempts[key] ELSE 0

\* Map.set(key, n)
attemptsSet(attempts, key, n) ==
    [k \in DOMAIN attempts \cup {key} |-> IF k = key THEN n ELSE attempts[k]]

\* Map.delete(key)
attemptsDelete(attempts, key) == [k \in DOMAIN attempts \ {key} |-> attempts[k]]

clearRetryHistory(attempts, d) ==
    [k \in {x \in DOMAIN attempts : ~startsWith(x, uriString(d))} |-> attempts[k]]

-----------------------------------------------------------------------------
(* Processing results *)

Completed(formatted) ==
    [kind |-> "result", success |-> TRUE, documentModified |-> TRUE,
     processingState |-> "completed", timestamp |-> formatted, error |-> null]

Skipped ==
    [kind |-> "result", success |-> TRUE, documentModified |-> FALSE,
     processingState |-> "skipped", timestamp |-> null, error |-> null]

\* a failed result that is left in progress
Failed_inProgress(error, timestamp) ==
    [kind |-> "result", success |-> FALSE, documentModified |-> FALSE,
     processingState |-> "in_progress", timestamp |-> timestamp, error |-> error]

Failed(error, timestamp) ==
    [kind |-> "result", success |-> FALSE, documentModified |-> FALSE,
     processingState |-> "failed", timestamp |-> timestamp, error |-> error]

\* handleDocumentOpened returned before onDocumentOpened: unsupported file type
Filtered == [kind |-> "filtered"]

\* an exception on its way up instead of a result
Thrown ==
    [kind |-> "thrown", success |-> FALSE, documentModified |-> FALSE,
     processingState |-> "none", timestamp |-> null, error |-> "thrown error message"]

\* an exception that is let through
caught_rethrows(outcome) == outcome

\* the catch block of onDocumentOpened: an exception becomes a failed result
\* with error.message
caught(outcome) ==
    IF outcome.kind = "thrown" THEN Failed(outcome.error, null) ELSE outcome

\* handleDocumentOpened caught an exception and logged it: no result
Caught == [kind |-> "caught"]

\* processDocument that fails when the cursor could not be positioned
processDocumentAfterInsert_cursorFails(cursorResult, formattedTimestamp) ==
    IF cursorResult.success THEN Completed(formattedTimestamp)
    ELSE Failed("Cursor positioning failed", formattedTimestamp)

\* processDocument after insertTextAtEnd succeeded: the result of
\* positionCursorAtEnd is logged and does not change the outcome
processDocumentAfterInsert(cursorResult, formattedTimestamp) ==
    Completed(formattedTimestamp)

\* the status-bar message `dotLOG: Could not add timestamp to ${fileName}`
showGracefulFailureNotification(fileName) ==
    <<"d", "o", "t", "L", "O", "G", ":", " ", "C", "o", "u", "l", "d", " ", "n", "o", "t",
      " ", "a", "d", "d", " ", "t", "i", "m", "e", "s", "t", "a", "m", "p", " ", "t", "o",
      " ">> \o fileName

-----------------------------------------------------------------------------
(* FileMonitor.onDocumentOpened and handleDocumentOpened up to the call of  *)
(* the handler. The monitor gets its services through its constructor: the  *)
(* content analyzer, the timestamp service and the map of handlers.         *)

\* the services extension.ts constructs the monitor with
RegisteredServices ==
    [analyzer |-> "ContentAnalyzer", timestampService |-> "TimestampService",
     fileHandlers |-> SupportedFileType]

\* contentAnalyzer.analyzeContent(document): the ContentAnalyzer, or an
\* analyzer whose analysis fails
analysisOf(analyzer, d) ==
    IF analyzer = "ContentAnalyzer" THEN analyzeContent(d)
    ELSE [success |-> FALSE, error |-> "Analysis failed",
          errorCode |-> "CONTENT_ANALYSIS_FAILED"]

\* timestampService.getCurrentTimestamp(): the TimestampService, a service
\* that fails, or one that returns an empty timestamp
timestampOf(timestampService, now) ==
    CASE timestampService = "TimestampService" -> getCurrentTimestamp(now)
      [] timestampService = "failing" ->
             [success |-> FALSE, data |-> <<>>, error |-> "Timestamp failed"]
      [] timestampService = "empty" -> [success |-> TRUE, data |-> <<>>, error |-> null]

\* a message that does not name the type
NoHandlerFound_unnamed(fileType) == "No handler found"

\* `No handler found for file type: ${context.fileType}`
NoHandlerFound(fileType) ==
    CASE fileType = "txt" -> "No handler found for file type: txt"
      [] fileType = "log" -> "No handler found for file type: log"
      [] fileType = "md" -> "No handler found for file type: md"

\* onDocumentOpened returned without calling a handler
Returned(result, invoked, errors) ==
    [stage |-> "returned", result |-> result, invoked |-> invoked, errors |-> errors,
     fileType |-> null, timestamp |-> <<>>]

\* onDocumentOpened that calls the handler of a document it was to skip
onDocumentOpened_noSkip(d, services, now) ==
    LET analysis == analysisOf(services.analyzer, d)
        timestampResult == timestampOf(services.timestampService, now)
    IN  IF d.unreadable = "lineCount"
        THEN Returned(caught(Thrown), <<>>, 1)
        ELSE IF services.analyzer = "throwing"
        THEN Returned(caught(Thrown), <<"analyzeContent">>, 1)
        ELSE IF ~analysis.success
        THEN Returned(Failed(analysis.error, null), <<"analyzeContent">>, 1)
        ELSE IF services.timestampService = "throwing"
        THEN Returned(caught(Thrown), <<"analyzeContent", "getCurrentTimestamp">>, 1)
        ELSE IF ~timestampResult.success \/ timestampResult.data = <<>>
        THEN Returned(Failed(IF timestampResult.error # null THEN timestampResult.error
                             ELSE "Failed to generate timestamp", null),
                      <<"analyzeContent", "getCurrentTimestamp">>, 1)
        ELSE IF analysis.fileType \notin services.fileHandlers
        THEN Returned(Failed(NoHandlerFound(analysis.fileType), null),
                      <<"analyzeContent", "getCurrentTimestamp">>, 1)
        ELSE [stage |-> "processDocument", result |-> [kind |-> "none"],
              invoked |-> <<"analyzeContent", "getCurrentTimestamp", "processDocument">>,
              errors |-> 0, fileType |-> analysis.fileType,
              timestamp |-> timestampResult.data]

\* onDocumentOpened up to handler.processDocument: the result it returns, or
\* the handler call it makes; invoked lists the services it called and errors
\* counts its logError calls. document.lineCount is read for the first log
\* entry, and a throw of that read or of a service ends in the catch block
onDocumentOpened(d, services, now) ==
    LET analysis == analysisOf(services.analyzer, d)
        timestampResult == timestampOf(services.timestampService, now)
    IN  IF d.unreadable = "lineCount"
        THEN Returned(caught(Thrown), <<>>, 1)
        ELSE IF services.analyzer = "throwing"
        THEN Returned(caught(Thrown), <<"analyzeContent">>, 1)
        ELSE IF ~analysis.success
        THEN Returned(Failed(analysis.error, null), <<"analyzeContent">>, 1)
        ELSE IF ~analysis.shouldProcess
        THEN Returned(Skipped, <<"analyzeContent">>, 0)
        ELSE IF services.timestampService = "throwing"
        THEN Returned(caught(Thrown), <<"analyzeContent", "getCurrentTimestamp">>, 1)
        ELSE IF ~timestampResult.success \/ timestampResult.data = <<>>
        THEN Returned(Failed(IF timestampResult.error # null THEN timestampResult.error
                             ELSE "Failed to generate timestamp", null),
                      <<"analyzeContent", "getCurrentTimestamp">>, 1)
        ELSE IF analysis.fileType \notin services.fileHandlers
        THEN Returned(Failed(NoHandlerFound(analysis.fileType), null),
                      <<"analyzeContent", "getCurrentTimestamp">>, 1)
        ELSE [stage |-> "processDocument", result |-> [kind |-> "none"],
              invoked |-> <<"analyzeContent", "getCurrentTimestamp", "processDocument">>,
              errors |-> 0, fileType |-> analysis.fileType,
              timestamp |-> timestampResult.data]

\* handleDocumentOpened that analyses a document of no supported type
handleDocumentOpened_noFilter(d, services, now) ==
    LET opened == onDocumentOpened(d, services, now)
    IN  [opened EXCEPT !.invoked = <<"getFileType">> \o @]

\* handleDocumentOpened up to handler.processDocument; a throw of
\* contentAnalyzer.getFileType is caught and logged
handleDocumentOpened(d, services, now) ==
    IF services.analyzer = "throwing"
    THEN [stage |-> "caught", result |-> Caught, invoked |-> <<"getFileType">>,
          errors |-> 1, fileType |-> null, timestamp |-> <<>>]
    ELSE IF getFileType(d) = null
    THEN [stage |-> "filtered", result |-> Filtered, invoked |-> <<"getFileType">>,
          errors |-> 0, fileType |-> null, timestamp |-> <<>>]
    ELSE LET opened == onDocumentOpened(d, services, now)
         IN  [opened EXCEPT !.invoked = <<"getFileType">> \o @]

\* a handler that never clears the retry history
afterOnDocumentOpened_neverClears(result) ==
    [clearRetryHistory |-> FALSE,
     logError |-> result.kind = "result" /\ ~result.success]

\* what handleDocumentOpened does with the result of onDocumentOpened: it
\* clears the retry history after a success and logs an error after a failure
afterOnDocumentOpened(result) ==
    [clearRetryHistory |-> result.kind = "result" /\ result.success,
     logError |-> result.kind = "result" /\ ~result.success]

\* onDocumentOpened or handleDocumentOpened (outer) to its end, with a handler
\* whose processDocument returns or throws handlerResult: the result, the
\* services called, the logError calls, whether the retry history is cleared,
\* and whether the call let an exception out
monitorCallOutcome(opened, handlerResult, outer) ==
    LET result == IF opened.stage = "processDocument" THEN caught(handlerResult)
                  ELSE opened.result
        handlerFailed == opened.stage = "processDocument" /\ ~result.success
        escaped == result.kind = "thrown"
        after == afterOnDocumentOpened(result)
    IN  [stage |-> opened.stage, result |-> IF outer /\ escaped THEN Caught ELSE result,
         invoked |-> opened.invoked,
         errors |-> opened.errors + (IF handlerFailed THEN 1 ELSE 0)
                      + (IF outer /\ (after.logError \/ escaped) THEN 1 ELSE 0),
         clearRetryHistory |-> outer /\ after.clearRetryHistory,
         threw |-> ~outer /\ escaped]

-----------------------------------------------------------------------------
(* Inputs of the units under test *)

\* the characters of the tokens that inputs are built from
Chars(tok) ==
    CASE tok = "" -> <<>>
      [] tok = "a" -> <<"a">>
      [] tok = "d/a" -> <<"d", "/", "a">>
      [] tok = "txt" -> <<"t", "x", "t">>
      [] tok = "TXT" -> <<"T", "X", "T">>
      [] tok = "log" -> <<"l", "o", "g">>
      [] tok = "md" -> <<"m", "d">>
      [] tok = "Md" -> <<"M", "d">>
      [] tok = "py" -> <<"p", "y">>
      [] tok = ".LOG" -> <<".", "L", "O", "G">>
      [] tok = ".log" -> <<".", "l", "o", "g">>
      [] tok = ".Log" -> <<".", "L", "o", "g">>
      [] tok = ".LOG extra" -> <<".", "L", "O", "G", " ", "e", "x", "t", "r", "a">>
      [] tok = "prefix .LOG suffix" ->
             <<"p", "r", "e", " ", ".", "L", "O", "G", " ", "s", "u", "f">>
      [] tok = "notes" -> <<"n", "o", "t", "e", "s">>

\* a file name is its segments joined by "."
RECURSIVE joinDots(_)
joinDots(segs) ==
    IF Len(segs) = 1 THEN Chars(segs[1])
    ELSE Chars(segs[1]) \o <<".">> \o joinDots(Tail(segs))

NameSegments == {"", "d/a", "txt", "TXT", "log", "Md", "py"}

MaxNameSegs == 3

NameSegs == UNION {[1..n -> NameSegments] : n \in 1..MaxNameSegs}

\* the names the marker tests and the pipeline use
FewNames == {<<"a", "txt">>, <<"a", "Md">>, <<"a", "py">>, <<"a">>}

LanguageIds == {"plaintext", "log", "markdown", "python", "txt"}

FewLanguageIds == {"plaintext", "python"}

\* whitespace put before and after the first line
PadChars == {" ", "\t"}

Pads == UNION {[1..n -> PadChars] : n \in 0..MaxPad}

FirstLineCores == {".LOG", ".log", ".Log", ".LOG extra", "prefix .LOG suffix", "notes", ""}

\* the lines after the first one
Rests == {"none", "blank", "notes", ".LOG"}

RestLines(rest) ==
    CASE rest = "none" -> <<>>
      [] rest = "blank" -> <<<<>>>>
      [] rest = "notes" -> <<Chars("notes")>>
      [] rest = ".LOG" -> <<Chars(".LOG")>>

\* the lines of a document whose first line is padL core padR
ContentLines(padL, core, padR, rest) ==
    <<padL \o Chars(core) \o padR>> \o RestLines(rest)

Years == {2024, 2025}
Months == {0, 1, 8, 9, 11}
Days == {1, 9, 10, 31}
Hours == 0..23
Minutes == {0, 7, 9, 10, 59}

Dates == [year : Years, month : Months, date : Days, hours : Hours, minutes : Minutes]

MaxTsLen == 3

TsChars == {"2", "-", ":", " ", "M", NL}

RawTimestamps == UNION {[1..n -> TsChars] : n \in 0..MaxTsLen}

Handlers == {"TextFileHandler", "LogFileHandler", "MarkdownFileHandler"}

\* the services a monitor is constructed with
Analyzers == {"ContentAnalyzer", "failing", "throwing"}

TimestampServices == {"TimestampService", "failing", "empty", "throwing"}

HandlerMaps == {SupportedFileType, {"txt", "log"}, {"log", "md"}, {}}

\* first lines of the documents a monitor is called with
MonitorCores == {".LOG", "notes"}

\* what the handler's processDocument returns
HandlerResults == {"completed", "failed", "throws"}

\* which reads of the document throw
Unreadables == {"no", "lineAt", "lineCount"}

\* first lines of the documents that text is inserted into
InsertCores == {".LOG", ""}

-----------------------------------------------------------------------------
(* The state the pipeline starts from *)

NoCall == [op |-> "none", done |-> TRUE]

\* the Date the timestamp service reads: 2025-01-05 13:07
PipelineClock == [year |-> 2025, month |-> 0, date |-> 5, hours |-> 13, minutes |-> 7]

NoEdit == [line |-> 0, character |-> 0, text |-> <<>>]

\* no document-open event is being handled
NoTask ==
    [pc |-> "idle", fileType |-> null, formatted |-> <<>>, edit |-> NoEdit,
     attempt |-> 0, inRecovery |-> FALSE, currentAttempts |-> 0]

\* a document; unreadable tells which of its reads throw: none ("no"),
\* lineAt, or lineCount and lineAt
NoDoc ==
    [lines |-> <<<<>>>>, fileName |-> <<"a">>, languageId |-> "plaintext",
     scheme |-> "file", isUntitled |-> FALSE, isDirty |-> FALSE, isClosed |-> FALSE,
     unreadable |-> "no"]

NoEditor == [shown |-> FALSE, uri |-> <<>>, selection |-> NoSelection]

\* the URI of a document other than the one that is opened
OtherDocumentUri == <<"f", "i", "l", "e", ":", "b">>

\* what vscode.window.activeTextEditor is: undefined, the editor of the
\* document that is opened, the editor of another document
Editors == {"none", "this", "other"}

\* no positionCursorAtEnd call has been made in the current event
NoCursor ==
    [called |-> FALSE, success |-> FALSE, errorCode |-> null, selection |-> NoSelection,
     linesAtCall |-> <<>>, linesAfter |-> <<>>]

NoInput ==
    [segs |-> <<"a">>, languageId |-> "plaintext", padL |-> <<>>, core |-> "",
     padR |-> <<>>, rest |-> "none", noLines |-> FALSE, editor |-> "none"]

NoHist ==
    [input |-> NoInput, opens |-> 0, completed |-> 0, closedAtOpen |-> FALSE,
     hostCalls |-> 0, applied |-> <<>>, timeouts |-> 0,
     statusBar |-> <<>>, dialogs |-> 0, cursorCalls |-> 0, cursor |-> NoCursor,
     accepted |-> FALSE, written |-> <<>>,
     before |-> <<>>, result |-> [kind |-> "none"]]

NoAttempts == [k \in {} |-> 0]

Epoch == [year |-> 2025, month |-> 0, date |-> 1, hours |-> 0, minutes |-> 0]

-----------------------------------------------------------------------------
(* Specification of the pure functions: each input is drawn at Init and the *)
(* function under test is applied to it once.                               *)

\* onDocumentOpened has not handed the document to a handler
NotDelegated == [handler |-> null, canHandle |-> FALSE]

\* the texts that are inserted: short ones with and without line breaks, the
\* raw timestamp and the text handler's insertion
InsertTexts ==
    RawTimestamps
    \cup {formatTimestamp(PipelineClock),
          TextFileHandler_formatTimestamp(formatTimestamp(PipelineClock))}

\* the calls of the pure functions, formatTimestamp over dates
PureCalls(dates) ==
    {[op |-> "formatTimestamp", date |-> d, done |-> FALSE, ret |-> null] : d \in dates}
    \cup
    {[op |-> "getFileType", segs |-> n, languageId |-> l,
      d |-> [lines |-> <<<<>>>>, fileName |-> joinDots(n), languageId |-> l,
             unreadable |-> "no"],
      done |-> FALSE, ret |-> null] : n \in NameSegs, l \in LanguageIds}
    \cup
    {[op |-> "shouldProcessDocument", segs |-> n, languageId |-> l,
      padL |-> c[1], core |-> c[2], padR |-> c[3], rest |-> c[4], noLines |-> FALSE,
      d |-> [lines |-> ContentLines(c[1], c[2], c[3], c[4]), fileName |-> joinDots(n),
             languageId |-> l, unreadable |-> "no"],
      done |-> FALSE, ret |-> null] :
        n \in FewNames, l \in FewLanguageIds,
        c \in Pads \X FirstLineCores \X Pads \X Rests}
    \cup
    {[op |-> "shouldProcessDocument", segs |-> n, languageId |-> l,
      padL |-> <<>>, core |-> "", padR |-> <<>>, rest |-> "none", noLines |-> TRUE,
      d |-> [lines |-> <<>>, fileName |-> joinDots(n), languageId |-> l,
             unreadable |-> "no"],
      done |-> FALSE, ret |-> null] : n \in FewNames, l \in FewLanguageIds}
    \cup
    {[op |-> "handlerFormatTimestamp", handler |-> h, timestamp |-> t,
      done |-> FALSE, ret |-> null] : h \in Handlers, t \in RawTimestamps}
    \cup
    {[op |-> "insertTextAtEnd", core |-> c, rest |-> r, text |-> t,
      d |-> [NoDoc EXCEPT !.lines = ContentLines(<<>>, c, <<>>, r),
                          !.fileName = joinDots(<<"a", "txt">>)],
      done |-> FALSE, ret |-> null] :
        c \in InsertCores, r \in Rests, t \in InsertTexts}

\* the calls of a monitor: the document, the services the monitor was
\* constructed with, what the handler does, and whether the retry map has
\* lingering entries
MonitorCalls(ops) ==
    {[op |-> o, segs |-> n, languageId |-> l, core |-> c,
      d |-> [NoDoc EXCEPT !.lines = ContentLines(<<>>, c, <<>>, "blank"),
                          !.fileName = joinDots(n), !.languageId = l,
                          !.unreadable = u],
      services |-> [analyzer |-> a, timestampService |-> t, fileHandlers |-> m],
      handlerResult |-> r, lingering |-> g, delegated |-> NotDelegated,
      done |-> FALSE, ret |-> null] :
        o \in ops,
        n \in FewNames, l \in FewLanguageIds, c \in MonitorCores,
        a \in Analyzers, t \in TimestampServices, m \in HandlerMaps,
        r \in HandlerResults, u \in Unreadables, g \in BOOLEAN}

\* retry entries left in the map when a document is opened: two of an
\* earlier recovery for the document, one of another document
LingeringAttempts(d) ==
    attemptsSet(attemptsSet(NoAttempts, recoveryKey(d), 2),
                OtherDocumentUri \o <<"-", "a", "p", "p", "l", "y", "E", "d", "i", "t">>, 1)

PureInit ==
    /\ \/ call \in PureCalls(Dates)
       \/ call \in MonitorCalls({"onDocumentOpened", "handleDocumentOpened"})
    /\ doc = NoDoc
    /\ activeEditor = NoEditor
    /\ isActive = FALSE
    /\ disposable = FALSE
    /\ listeners = 0
    /\ retryAttempts = IF call.op \in {"onDocumentOpened", "handleDocumentOpened"}
                          /\ call.lingering
                       THEN LingeringAttempts(call.d)
                       ELSE NoAttempts
    /\ task = NoTask
    /\ pending = <<>>
    /\ clock = Epoch
    /\ hist = NoHist

PipelineUnchanged ==
    UNCHANGED <<doc, activeEditor, isActive, disposable, listeners, retryAttempts,
                task, pending, clock, hist>>

CallFormatTimestamp ==
    /\ call.op = "formatTimestamp" /\ ~call.done
    /\ call' = [call EXCEPT !.ret = formatTimestamp(call.date), !.done = TRUE]
    /\ PipelineUnchanged

CallGetFileType ==
    /\ call.op = "getFileType" /\ ~call.done
    /\ call' = [call EXCEPT !.ret = getFileType(call.d), !.done = TRUE]
    /\ PipelineUnchanged

CallShouldProcessDocument ==
    /\ call.op = "shouldProcessDocument" /\ ~call.done
    /\ call' = [call EXCEPT !.ret = shouldProcessDocument(call.d), !.done = TRUE]
    /\ PipelineUnchanged

CallHandlerFormatTimestamp ==
    /\ call.op = "handlerFormatTimestamp" /\ ~call.done
    /\ call' = [call EXCEPT
                  !.ret = CASE call.handler = "TextFileHandler" ->
                                   TextFileHandler_formatTimestamp(call.timestamp)
                            [] call.handler = "LogFileHandler" ->
                                   LogFileHandler_formatTimestamp(call.timestamp)
                            [] call.handler = "MarkdownFileHandler" ->
                                   MarkdownFileHandler_formatTimestamp(call.timestamp),
                  !.done = TRUE]
    /\ PipelineUnchanged

CallInsertTextAtEnd ==
    /\ call.op = "insertTextAtEnd" /\ ~call.done
    /\ call' = [call EXCEPT !.ret = insertTextAtEnd(call.d, call.text), !.done = TRUE]
    /\ PipelineUnchanged

\* the result of the handler a monitor under test is constructed with
HandlerResult(r, fileType, timestamp) ==
    CASE r = "completed" -> Completed(handlerFormatTimestamp(fileType, timestamp))
      [] r = "failed" -> Failed("Handler failed", null)
      [] r = "throws" -> Thrown

CallOnDocumentOpened ==
    /\ call.op = "onDocumentOpened" /\ ~call.done
    /\ LET opened == onDocumentOpened(call.d, call.services, PipelineClock)
           handled == IF opened.stage = "processDocument"
                      THEN HandlerResult(call.handlerResult, opened.fileType,
                                         opened.timestamp)
                      ELSE Skipped
       IN  call' = [call EXCEPT !.ret = monitorCallOutcome(opened, handled, FALSE),
                                !.delegated =
                                    IF opened.stage = "processDocument"
                                    THEN [handler |-> opened.fileType,
                                          canHandle |-> handlerCanHandle(opened.fileType,
                                                                         call.d)]
                                    ELSE NotDelegated,
                                !.done = TRUE]
    /\ PipelineUnchanged

CallHandleDocumentOpened ==
    /\ call.op = "handleDocumentOpened" /\ ~call.done
    /\ LET opened == handleDocumentOpened(call.d, call.services, PipelineClock)
           handled == IF opened.stage = "processDocument"
                      THEN HandlerResult(call.handlerResult, opened.fileType,
                                         opened.timestamp)
                      ELSE Skipped
           outcome == monitorCallOutcome(opened, handled, TRUE)
       IN  /\ call' = [call EXCEPT !.ret = outcome, !.done = TRUE]
           /\ retryAttempts' = IF outcome.clearRetryHistory
                               THEN clearRetryHistory(retryAttempts, call.d)
                               ELSE retryAttempts
    /\ UNCHANGED <<doc, activeEditor, isActive, disposable, listeners, task, pending,
                   clock, hist>>

PureNext ==
    \/ CallOnDocumentOpened
    \/ CallHandleDocumentOpened
    \/ CallFormatTimestamp
    \/ CallGetFileType
    \/ CallShouldProcessDocument
    \/ CallHandlerFormatTimestamp
    \/ CallInsertTextAtEnd

SpecPure == PureInit /\ [][PureNext]_vars

-----------------------------------------------------------------------------
(* The pipeline: one document, the monitor, and the host that opens the     *)
(* document, answers apply-edit calls, fires timers and closes the document *)

\* first line and following lines of the documents that are opened
PipelineContents ==
    {[padL |-> <<>>, core |-> ".LOG", padR |-> <<>>, rest |-> "none", noLines |-> FALSE],
     [padL |-> <<>>, core |-> ".LOG", padR |-> <<>>, rest |-> "blank", noLines |-> FALSE],
     [padL |-> <<>>, core |-> ".LOG", padR |-> <<>>, rest |-> "notes", noLines |-> FALSE],
     [padL |-> <<" ">>, core |-> ".LOG", padR |-> <<>>, rest |-> "blank", noLines |-> FALSE],
     [padL |-> <<>>, core |-> ".LOG", padR |-> <<" ">>, rest |-> "blank", noLines |-> FALSE],
     [padL |-> <<>>, core |-> ".log", padR |-> <<>>, rest |-> "blank", noLines |-> FALSE],
     [padL |-> <<>>, core |-> "notes", padR |-> <<>>, rest |-> ".LOG", noLines |-> FALSE],
     [padL |-> <<>>, core |-> "", padR |-> <<>>, rest |-> "none", noLines |-> TRUE]}

\* name and language id of the documents that are opened
PipelineNames ==
    {[segs |-> <<"a", "txt">>, languageId |-> "plaintext"],
     [segs |-> <<"a", "log">>, languageId |-> "log"],
     [segs |-> <<"a", "md">>, languageId |-> "markdown"],
     [segs |-> <<"a", "py">>, languageId |-> "python"],
     [segs |-> <<"a", "py">>, languageId |-> "plaintext"],
     [segs |-> <<"a">>, languageId |-> "plaintext"]}

\* what backs the document: a file, an unsaved buffer, a read-only provider
PipelineStores ==
    {[scheme |-> "file", isUntitled |-> FALSE],
     [scheme |-> "untitled", isUntitled |-> TRUE],
     [scheme |-> "git", isUntitled |-> FALSE]}

PipelineInputs ==
    {[content |-> c, name |-> n, store |-> [scheme |-> "file", isUntitled |-> FALSE],
      editor |-> "this"] : c \in PipelineContents, n \in PipelineNames}
    \cup
    {i \in {[content |-> c, name |-> n, store |-> st, editor |-> e] :
               c \in {x \in PipelineContents : x.core = ".LOG" /\ x.padL = <<>>
                                               /\ x.padR = <<>>
                                               /\ x.rest \in {"none", "blank"}},
               n \in {x \in PipelineNames : x.segs \in {<<"a", "txt">>, <<"a", "md">>}},
               st \in PipelineStores, e \in Editors} :
        i.store.scheme = "file" \/ i.editor = "this"}

Init ==
    /\ call = NoCall
    /\ \E i \in PipelineInputs :
          /\ doc = [lines |-> IF i.content.noLines THEN <<>>
                              ELSE ContentLines(i.content.padL, i.content.core,
                                                i.content.padR, i.content.rest),
                    fileName |-> joinDots(i.name.segs),
                    languageId |-> i.name.languageId,
                    scheme |-> i.store.scheme,
                    isUntitled |-> i.store.isUntitled,
                    isDirty |-> FALSE,
                    isClosed |-> FALSE,
                    unreadable |-> "no"]
          /\ activeEditor = [shown |-> i.editor # "none",
                             uri |-> CASE i.editor = "this" -> uriString(doc)
                                       [] i.editor = "other" -> OtherDocumentUri
                                       [] i.editor = "none" -> <<>>,
                             selection |-> NoSelection]
          /\ hist = [NoHist EXCEPT !.input =
                        [segs |-> i.name.segs, languageId |-> i.name.languageId,
                         padL |-> i.content.padL, core |-> i.content.core,
                         padR |-> i.content.padR, rest |-> i.content.rest,
                         noLines |-> i.content.noLines, editor |-> i.editor]]
    /\ isActive = FALSE
    /\ disposable = FALSE
    /\ listeners = 0
    /\ retryAttempts = NoAttempts
    /\ task = NoTask
    /\ pending = <<>>
    /\ clock = PipelineClock

(* FileMonitor.startMonitoring / stopMonitoring / dispose *)

\* startMonitoring that subscribes again when it is already active
startMonitoring_resubscribe ==
    /\ disposable' = TRUE
    /\ listeners' = listeners + 1
    /\ isActive' = TRUE

startMonitoring ==
    IF isActive
    THEN UNCHANGED <<isActive, disposable, listeners>>
    ELSE /\ disposable' = TRUE
         /\ listeners' = listeners + 1
         /\ isActive' = TRUE

stopMonitoring ==
    IF ~isActive
    THEN UNCHANGED <<isActive, disposable, listeners>>
    ELSE /\ listeners' = IF disposable /\ listeners > 0 THEN listeners - 1 ELSE listeners
         /\ disposable' = FALSE
         /\ isActive' = FALSE

\* startMonitoring when the host's onDidOpenTextDocument throws: the catch
\* returns before disposable and isActive are assigned
startMonitoringHostThrows ==
    /\ ~isActive
    /\ UNCHANGED <<isActive, disposable, listeners>>

\* stopMonitoring when the subscription's dispose() throws: the catch returns
\* before disposable and isActive are cleared; whether the host had removed
\* the listener before it threw is the host's choice
stopMonitoringHostThrows ==
    /\ isActive /\ disposable
    /\ listeners' \in {listeners, IF listeners > 0 THEN listeners - 1 ELSE listeners}
    /\ UNCHANGED <<isActive, disposable>>

startMonitoringFailed ==
    [success |-> FALSE, error |-> "thrown error message", errorCode |-> "MONITOR_START_FAILED"]

stopMonitoringFailed ==
    [success |-> FALSE, error |-> "thrown error message", errorCode |-> "MONITOR_STOP_FAILED"]

isMonitoring == isActive

\* what startMonitoring returns, read in the state it is called in
startMonitoringReturn ==
    IF isActive
    THEN [success |-> FALSE, error |-> "File monitoring is already active",
          errorCode |-> "MONITOR_ALREADY_ACTIVE"]
    ELSE [success |-> TRUE, error |-> null, errorCode |-> null]

\* what stopMonitoring returns, read in the state it is called in
stopMonitoringReturn ==
    IF ~isActive
    THEN [success |-> FALSE, error |-> "File monitoring is not active",
          errorCode |-> "MONITOR_NOT_ACTIVE"]
    ELSE [success |-> TRUE, error |-> null, errorCode |-> null]

\* a dispose that marks the monitor inactive and keeps the subscription
dispose_keepsSubscription ==
    /\ isActive' = FALSE
    /\ UNCHANGED <<disposable, listeners>>

dispose == stopMonitoring

StartMonitoring ==
    /\ startMonitoring
    /\ UNCHANGED <<call, doc, activeEditor, retryAttempts, task, pending, clock, hist>>

StopMonitoring ==
    /\ stopMonitoring
    /\ UNCHANGED <<call, doc, activeEditor, retryAttempts, task, pending, clock, hist>>

Dispose ==
    /\ dispose
    /\ UNCHANGED <<call, doc, activeEditor, retryAttempts, task, pending, clock, hist>>

(* How an event ends: handleDocumentOpened after onDocumentOpened returned *)

\* the event ends with result r; attempts is the retry map at that moment
EndEvent(r, attempts, h) ==
    /\ task' = NoTask
    /\ retryAttempts' = IF afterOnDocumentOpened(r).clearRetryHistory
                        THEN clearRetryHistory(attempts, doc')
                        ELSE attempts
    /\ hist' = [h EXCEPT !.result = r,
                         !.completed = IF r.kind = "result" /\ r.success /\ r.documentModified
                                       THEN @ + 1 ELSE @]

\* a failed insertTextAtEnd that ends the event without the status-bar notice
InsertFailed_noNotice(error, attempts, h) ==
    EndEvent(Failed(error, task.formatted), attempts, h)

\* processDocument got a failure from insertTextAtEnd: gracefulTimestampFailure
\* shows the status-bar notice and returns the failed result
InsertFailed(error, attempts, h) ==
    EndEvent(Failed(error, task.formatted), attempts,
             [h EXCEPT !.statusBar = Append(@, showGracefulFailureNotification(doc.fileName))])

(* applyEditWithRetry and recoverFromDocumentModificationFailure *)

\* vscode.workspace.applyEdit(edit) is called and awaited
CallHost(t, attempts, h) ==
    /\ task' = [t EXCEPT !.pc = "applyEdit"]
    /\ retryAttempts' = attempts
    /\ hist' = [h EXCEPT !.hostCalls = @ + 1]

\* one pass of the recovery loop from the increment on: count the attempt and
\* run the retry function, which starts applyEditWithRetry at attempt 0
RecoveryAttempt(t, attempts, h) ==
    CallHost([t EXCEPT !.currentAttempts = @ + 1, !.attempt = 0],
             attemptsSet(attempts, recoveryKey(doc), t.currentAttempts + 1), h)

\* the head of the recovery loop
RecoveryLoop(t, attempts, h) ==
    IF ~(t.currentAttempts < ErrorRecoveryService_maxRetries)
    THEN InsertFailed("Maximum retry attempts exceeded",
                      attemptsDelete(attempts, recoveryKey(doc)), h)
    ELSE IF doc.isClosed
    THEN InsertFailed("Document was closed during recovery attempt",
                      attemptsDelete(attempts, recoveryKey(doc)), h)
    ELSE IF t.currentAttempts > 0
    THEN /\ task' = [t EXCEPT !.pc = "recoveryDelay"]
         /\ retryAttempts' = attempts
         /\ hist' = h
    ELSE RecoveryAttempt(t, attempts, h)

\* applyEditWithRetry that retries once more than maxRetries allows
ApplyEditFailed_retryTwice(h) ==
    IF task.attempt <= DocumentEditor_maxRetries
    THEN /\ task' = [task EXCEPT !.pc = "retryWait"]
         /\ UNCHANGED retryAttempts
         /\ hist' = h
    ELSE IF ~task.inRecovery
    THEN RecoveryLoop([task EXCEPT !.inRecovery = TRUE,
                                   !.currentAttempts = attemptsOf(retryAttempts, recoveryKey(doc))],
                      retryAttempts, h)
    ELSE IF task.currentAttempts >= ErrorRecoveryService_maxRetries
    THEN InsertFailed("Maximum retry attempts exceeded",
                      attemptsDelete(retryAttempts, recoveryKey(doc)), h)
    ELSE RecoveryLoop(task, retryAttempts, h)

\* an apply-edit failure followed by a wait whose timer is never set
ApplyEditFailed_noTimer(h) ==
    /\ task' = [task EXCEPT !.pc = "waitWithoutTimer"]
    /\ UNCHANGED retryAttempts
    /\ hist' = h

\* an apply-edit call did not report success: it resolved false, it rejected,
\* or the timeout won the race
ApplyEditFailed(h) ==
    IF task.attempt < DocumentEditor_maxRetries
    THEN /\ task' = [task EXCEPT !.pc = "retryWait"]
         /\ UNCHANGED retryAttempts
         /\ hist' = h
    ELSE IF ~task.inRecovery
    THEN RecoveryLoop([task EXCEPT !.inRecovery = TRUE,
                                   !.currentAttempts = attemptsOf(retryAttempts, recoveryKey(doc))],
                      retryAttempts, h)
    ELSE IF task.currentAttempts >= ErrorRecoveryService_maxRetries
    THEN InsertFailed("Maximum retry attempts exceeded",
                      attemptsDelete(retryAttempts, recoveryKey(doc)), h)
    ELSE RecoveryLoop(task, retryAttempts, h)

(* The host raises a document-open event: handleDocumentOpened runs up to   *)
(* its first wait for the host                                              *)

OpenDocument ==
    /\ listeners > 0
    /\ task.pc = "idle"
    /\ hist.opens < MaxOpens
    /\ LET h == [hist EXCEPT !.opens = @ + 1, !.hostCalls = 0, !.applied = <<>>,
                             !.closedAtOpen = doc.isClosed,
                             !.statusBar = <<>>, !.dialogs = 0,
                             !.cursorCalls = 0, !.cursor = NoCursor, !.accepted = FALSE,
                             !.written = <<>>, !.before = doc.lines,
                             !.result = [kind |-> "none"]]
           opened == handleDocumentOpened(doc, RegisteredServices, clock)
       IN  /\ UNCHANGED <<call, doc, activeEditor, isActive, disposable, listeners,
                          pending, clock>>
           /\ IF opened.stage # "processDocument"
              THEN EndEvent(opened.result, retryAttempts, h)
              ELSE IF ~canModifyDocument(doc)
              THEN EndEvent(Failed("Document is read-only or cannot be modified", null),
                            retryAttempts, h)
              ELSE LET formatted == handlerFormatTimestamp(opened.fileType,
                                                           opened.timestamp)
                   IN  CallHost([NoTask EXCEPT !.fileType = opened.fileType,
                                               !.formatted = formatted,
                                               !.edit = buildEdit(doc, formatted)],
                                retryAttempts, h)

(* The host answers the awaited apply-edit call *)

\* the host applies the edit and resolves true: insertTextAtEnd succeeds, the
\* cursor is positioned, processDocument returns COMPLETED
ApplyEditAccepted ==
    /\ task.pc = "applyEdit"
    /\ ~doc.isClosed
    /\ LET inserted == [doc EXCEPT !.lines = applyEdit(doc.lines, task.edit),
                                   !.isDirty = TRUE]
           cursor == positionCursorAtEnd(activeEditor, inserted)
           attempts == IF task.inRecovery
                       THEN attemptsDelete(retryAttempts, recoveryKey(doc))
                       ELSE retryAttempts
       IN  /\ doc' = [inserted EXCEPT !.lines = cursor.lines]
           /\ activeEditor' = cursor.editor
           /\ EndEvent(processDocumentAfterInsert(cursor, task.formatted), attempts,
                       [hist EXCEPT !.applied = Append(@, task.edit.text),
                                    !.accepted = TRUE,
                                    !.written = task.edit.text,
                                    !.cursorCalls = @ + 1,
                                    !.cursor = [called |-> TRUE,
                                                success |-> cursor.success,
                                                errorCode |-> cursor.errorCode,
                                                selection |-> cursor.editor.selection,
                                                linesAtCall |-> inserted.lines,
                                                linesAfter |-> cursor.lines]])
    /\ UNCHANGED <<call, isActive, disposable, listeners, pending, clock>>

\* the host resolves false or rejects: nothing is applied
ApplyEditRefused ==
    /\ task.pc = "applyEdit"
    /\ ApplyEditFailed(hist)
    /\ UNCHANGED <<call, doc, activeEditor, isActive, disposable, listeners, pending, clock>>

\* the 5 s timeout wins the race: the host call stays unanswered
ApplyEditTimesOut ==
    /\ task.pc = "applyEdit"
    /\ hist.timeouts < MaxTimeouts
    /\ pending' = Append(pending, task.edit)
    /\ ApplyEditFailed([hist EXCEPT !.timeouts = @ + 1])
    /\ UNCHANGED <<call, doc, activeEditor, isActive, disposable, listeners, clock>>

\* the host applies an edit whose call has timed out
LateApply ==
    /\ pending # <<>>
    /\ ~doc.isClosed
    /\ doc' = [doc EXCEPT !.lines = applyEdit(doc.lines, Head(pending)), !.isDirty = TRUE]
    /\ pending' = Tail(pending)
    /\ hist' = [hist EXCEPT !.applied = Append(@, Head(pending).text)]
    /\ UNCHANGED <<call, activeEditor, isActive, disposable, listeners, retryAttempts,
                   task, clock>>

\* the host gives up an edit whose call has timed out
LateDrop ==
    /\ pending # <<>>
    /\ pending' = Tail(pending)
    /\ UNCHANGED <<call, doc, activeEditor, isActive, disposable, listeners,
                   retryAttempts, task, clock, hist>>

(* Timers *)

\* the 100 ms wait of applyEditWithRetry ends: the next attempt calls the host
RetryWaitEnds ==
    /\ task.pc = "retryWait"
    /\ CallHost([task EXCEPT !.attempt = @ + 1], retryAttempts, hist)
    /\ UNCHANGED <<call, doc, activeEditor, isActive, disposable, listeners, pending, clock>>

\* the delay before a recovery attempt ends
RecoveryDelayEnds ==
    /\ task.pc = "recoveryDelay"
    /\ RecoveryAttempt(task, retryAttempts, hist)
    /\ UNCHANGED <<call, doc, activeEditor, isActive, disposable, listeners, pending, clock>>

\* the host closes the document
CloseDocument ==
    /\ ~doc.isClosed
    /\ doc' = [doc EXCEPT !.isClosed = TRUE]
    /\ activeEditor' = IF activeEditor.uri = uriString(doc)
                       THEN [activeEditor EXCEPT !.shown = FALSE]
                       ELSE activeEditor
    /\ UNCHANGED <<call, isActive, disposable, listeners, retryAttempts, task, pending,
                   clock, hist>>

Next ==
    \/ StartMonitoring
    \/ StopMonitoring
    \/ Dispose
    \/ OpenDocument
    \/ ApplyEditAccepted
    \/ ApplyEditRefused
    \/ ApplyEditTimesOut
    \/ LateApply
    \/ LateDrop
    \/ RetryWaitEnds
    \/ RecoveryDelayEnds
    \/ CloseDocument

Spec == Init /\ [][Next]_vars

\* the documents whose only line is .LOG, under every name, store and editor
LiveInit ==
    /\ Init
    /\ hist.input.core = ".LOG"
    /\ hist.input.rest = "none"

\* The pipeline with its scheduling: an awaited apply-edit call is answered
\* or loses the race against its 5 s timeout, and the setTimeout timers of
\* the retry wait and of the recovery delay fire; each of these steps moves
\* the task on
SpecLive ==
    /\ LiveInit
    /\ [][Next]_vars
    /\ WF_task(ApplyEditRefused \/ ApplyEditTimesOut \/ ApplyEditAccepted)
    /\ WF_task(RetryWaitEnds)
    /\ WF_task(RecoveryDelayEnds)

-----------------------------------------------------------------------------
(* The monitor alone: every sequence of startMonitoring, stopMonitoring and *)
(* dispose calls on a new FileMonitor, each call logged with what it found, *)
(* returned and left                                                        *)

MaxMonitorCalls == 5

MonitorInit ==
    /\ call = [op |-> "monitor", done |-> FALSE, log |-> <<>>]
    /\ doc = NoDoc
    /\ activeEditor = NoEditor
    /\ isActive = FALSE
    /\ disposable = FALSE
    /\ listeners = 0
    /\ retryAttempts = NoAttempts
    /\ task = NoTask
    /\ pending = <<>>
    /\ clock = Epoch
    /\ hist = NoHist

\* the log entry of a call: the state before, the return value, the state after
MonitorCalled(op, ret) ==
    /\ call.op = "monitor"
    /\ Len(call.log) < MaxMonitorCalls
    /\ call' = [call EXCEPT !.log = Append(@,
                   [op |-> op, ret |-> ret, threw |-> FALSE,
                    activeBefore |-> isActive, listenersBefore |-> listeners,
                    activeAfter |-> isActive', disposableAfter |-> disposable',
                    listenersAfter |-> listeners'])]
    /\ UNCHANGED <<doc, activeEditor, retryAttempts, task, pending, clock, hist>>

CallStartMonitoring ==
    /\ startMonitoring
    /\ MonitorCalled("startMonitoring", startMonitoringReturn)

CallStopMonitoring ==
    /\ stopMonitoring
    /\ MonitorCalled("stopMonitoring", stopMonitoringReturn)

CallDispose ==
    /\ dispose
    /\ MonitorCalled("dispose", [success |-> TRUE, error |-> null, errorCode |-> null])

MonitorNext ==
    \/ CallStartMonitoring
    \/ CallStopMonitoring
    \/ CallDispose

SpecMonitor == MonitorInit /\ [][MonitorNext]_vars

(* The monitor on a host whose subscribe and dispose calls may throw *)

CallStartMonitoringHostThrows ==
    /\ startMonitoringHostThrows
    /\ MonitorCalled("startMonitoring", startMonitoringFailed)

CallStopMonitoringHostThrows ==
    /\ stopMonitoringHostThrows
    /\ MonitorCalled("stopMonitoring", stopMonitoringFailed)

\* dispose() calls stopMonitoring and drops what it returns
CallDisposeHostThrows ==
    /\ stopMonitoringHostThrows
    /\ MonitorCalled("dispose", [success |-> TRUE, error |-> null, errorCode |-> null])

MonitorThrowsNext ==
    \/ CallStartMonitoring
    \/ CallStopMonitoring
    \/ CallDispose
    \/ CallStartMonitoringHostThrows
    \/ CallStopMonitoringHostThrows
    \/ CallDisposeHostThrows

SpecMonitorThrows == MonitorInit /\ [][MonitorThrowsNext]_vars

-----------------------------------------------------------------------------
(* The recovery service alone: recoveries started on one                    *)
(* ErrorRecoveryService for several documents and operations, running       *)
(* concurrently, with a retry function that succeeds, fails or throws,      *)
(* documents that close, and clearRetryHistory calls                        *)

MaxRecoveries == 2   \* recoverFromDocumentModificationFailure calls

retryDelayMs == 500

\* the characters of an operation name
OperationChars(operation) ==
    CASE operation = "applyEdit" -> <<"a", "p", "p", "l", "y", "E", "d", "i", "t">>
      [] operation = "save" -> <<"s", "a", "v", "e">>

\* `${document.uri.toString()}-${operation}`
recoveryKeyOf(d, operation) == uriString(d) \o <<"-">> \o OperationChars(operation)

\* `Maximum retry attempts (${this.maxRetries}) exceeded for ${operation}`
MaximumExceeded(operation) ==
    CASE operation = "applyEdit" -> "Maximum retry attempts (3) exceeded for applyEdit"
      [] operation = "save" -> "Maximum retry attempts (3) exceeded for save"

\* a delay that does not grow with the attempts
retryDelay_constant(currentAttempts) == retryDelayMs

\* this.retryDelayMs * currentAttempts
retryDelay(currentAttempts) == retryDelayMs * currentAttempts

\* one call of recoverFromDocumentModificationFailure: its arguments, its
\* local currentAttempts, where it stands, and what it did and returned
\* (start: the count it read; invocations: the calls of the retry function;
\* successes: those that resolved with success; waits: the delay before each;
\* invokedClosed: a call of the retry function found the document closed)
NewRecovery(d, operation, attempts, closed) ==
    [doc |-> d, operation |-> operation,
     start |-> attemptsOf(attempts, recoveryKeyOf(d, operation)),
     closedAtStart |-> d.fileName \in closed,
     currentAttempts |-> attemptsOf(attempts, recoveryKeyOf(d, operation)),
     pc |-> "loop", invocations |-> 0, successes |-> 0, waits |-> <<>>,
     invokedClosed |-> FALSE,
     success |-> FALSE, error |-> null, errorCode |-> null]

\* a return that leaves the attempt count in the map
recoveryReturn_keepsEntry(p, attempts, closed, success, error) ==
    [p |-> [p EXCEPT !.pc = "returned", !.success = success, !.error = error,
                     !.errorCode = IF success THEN null
                                   ELSE "DOCUMENT_MODIFICATION_FAILED"],
     attempts |-> attempts]

\* this.retryAttempts.delete(recoveryKey); return ...
recoveryReturn(p, attempts, closed, success, error) ==
    [p |-> [p EXCEPT !.pc = "returned", !.success = success, !.error = error,
                     !.errorCode = IF success THEN null
                                   ELSE "DOCUMENT_MODIFICATION_FAILED"],
     attempts |-> attemptsDelete(attempts, recoveryKeyOf(p.doc, p.operation))]

\* currentAttempts++; set(recoveryKey, currentAttempts); retryFunction(): wait
\* is the delay that preceded the invocation, 0 when there was none
recoveryAttempt(p, attempts, closed, wait) ==
    [p |-> [p EXCEPT !.pc = "retryFunction", !.currentAttempts = @ + 1,
                     !.invocations = @ + 1, !.waits = Append(@, wait),
                     !.invokedClosed = @ \/ p.doc.fileName \in closed],
     attempts |-> attemptsSet(attempts, recoveryKeyOf(p.doc, p.operation),
                              p.currentAttempts + 1)]

\* the head of the while loop, up to the next await
recoveryLoop(p, attempts, closed) ==
    IF ~(p.currentAttempts < ErrorRecoveryService_maxRetries)
    THEN recoveryReturn(p, attempts, closed, FALSE, MaximumExceeded(p.operation))
    ELSE IF p.doc.fileName \in closed
    THEN recoveryReturn(p, attempts, closed, FALSE,
                        "Document was closed during recovery attempt")
    ELSE IF p.currentAttempts > 0
    THEN [p |-> [p EXCEPT !.pc = "delay"], attempts |-> attempts]
    ELSE recoveryAttempt(p, attempts, closed, 0)

\* a loop that goes on after the retry function reported success
retryFunctionDone_ignoresSuccess(p, attempts, closed, outcome) ==
    IF p.currentAttempts >= ErrorRecoveryService_maxRetries
    THEN recoveryReturn(p, attempts, closed, FALSE, MaximumExceeded(p.operation))
    ELSE recoveryLoop(p, attempts, closed)

\* the awaited retryFunction() settles: it resolved with success, resolved
\* with a failure, or rejected
retryFunctionDone(p, attempts, closed, outcome) ==
    IF outcome = "success"
    THEN recoveryReturn(p, attempts, closed, TRUE, null)
    ELSE IF outcome = "failure"
    THEN IF p.currentAttempts >= ErrorRecoveryService_maxRetries
         THEN recoveryReturn(p, attempts, closed, FALSE, MaximumExceeded(p.operation))
         ELSE recoveryLoop(p, attempts, closed)
    ELSE IF p.currentAttempts >= ErrorRecoveryService_maxRetries
         THEN recoveryReturn(p, attempts, closed, FALSE, "thrown error message")
         ELSE recoveryLoop(p, attempts, closed)

\* Object.fromEntries(this.retryAttempts)
getRetryStatistics(attempts) == attempts

\* the documents recoveries run for: the URI of the first is a prefix of the
\* URI of the second
RecoveryDocuments ==
    {[NoDoc EXCEPT !.fileName = joinDots(<<"a">>)],
     [NoDoc EXCEPT !.fileName = joinDots(<<"a", "txt">>)]}

\* the recoveries that are started
RecoveryCalls ==
    {[doc |-> d, operation |-> "applyEdit"] : d \in RecoveryDocuments}
    \cup {[doc |-> [NoDoc EXCEPT !.fileName = joinDots(<<"a">>)], operation |-> "save"]}

\* no clearRetryHistory call was made in the last step
NoClear == [called |-> FALSE, doc |-> NoDoc, before |-> NoAttempts]

\* a call that returned before the last step: its record is dropped
Gone == [NewRecovery(NoDoc, "applyEdit", NoAttempts, {}) EXCEPT !.pc = "gone"]

\* the calls, of which those that returned in the last step are on record
\* with what they did and returned
Retired(procs) ==
    [i \in 1..Len(procs) |-> IF procs[i].pc = "returned" THEN Gone ELSE procs[i]]

RecoveryInit ==
    /\ call = [op |-> "recovery", done |-> FALSE, procs |-> <<>>, closed |-> {},
               cleared |-> NoClear]
    /\ doc = NoDoc
    /\ activeEditor = NoEditor
    /\ isActive = FALSE
    /\ disposable = FALSE
    /\ listeners = 0
    /\ retryAttempts = NoAttempts
    /\ task = NoTask
    /\ pending = <<>>
    /\ clock = Epoch
    /\ hist = NoHist

RecoveryUnchanged ==
    UNCHANGED <<doc, activeEditor, isActive, disposable, listeners, task, pending,
                clock, hist>>

\* recovery i moves on to r
RecoveryStep(i, r) ==
    /\ call' = [call EXCEPT !.procs = [Retired(@) EXCEPT ![i] = r.p],
                            !.cleared = NoClear]
    /\ retryAttempts' = r.attempts
    /\ RecoveryUnchanged

\* recoverFromDocumentModificationFailure is called and runs to its first
\* await or to its return
recoverFromDocumentModificationFailure ==
    /\ call.op = "recovery" /\ ~call.done
    /\ Len(call.procs) < MaxRecoveries
    /\ \E c \in RecoveryCalls :
         LET r == recoveryLoop(NewRecovery(c.doc, c.operation, retryAttempts, call.closed),
                               retryAttempts, call.closed)
         IN  /\ call' = [call EXCEPT !.procs = Append(Retired(@), r.p),
                                     !.cleared = NoClear]
             /\ retryAttempts' = r.attempts
    /\ RecoveryUnchanged

\* the delay before an attempt ends
RecoveryDelayDone ==
    /\ call.op = "recovery" /\ ~call.done
    /\ \E i \in 1..Len(call.procs) :
         /\ call.procs[i].pc = "delay"
         /\ RecoveryStep(i, recoveryAttempt(call.procs[i], retryAttempts, call.closed,
                                            retryDelay(call.procs[i].currentAttempts)))

RetryFunctionDone(outcome) ==
    \E i \in 1..Len(call.procs) :
        /\ call.procs[i].pc = "retryFunction"
        /\ LET r == retryFunctionDone(call.procs[i], retryAttempts, call.closed, outcome)
           IN  RecoveryStep(i, [r EXCEPT !.p.successes =
                                   @ + (IF outcome = "success" THEN 1 ELSE 0)])

RetryFunctionSucceeds ==
    /\ call.op = "recovery" /\ ~call.done
    /\ RetryFunctionDone("success")

RetryFunctionFails ==
    /\ call.op = "recovery" /\ ~call.done
    /\ RetryFunctionDone("failure")

RetryFunctionThrows ==
    /\ call.op = "recovery" /\ ~call.done
    /\ RetryFunctionDone("throws")

\* a document of a recovery is closed
CloseRecoveryDocument ==
    /\ call.op = "recovery" /\ ~call.done
    /\ \E d \in RecoveryDocuments :
         /\ d.fileName \notin call.closed
         /\ call' = [call EXCEPT !.closed = @ \cup {d.fileName},
                                 !.procs = Retired(@), !.cleared = NoClear]
    /\ UNCHANGED retryAttempts
    /\ RecoveryUnchanged

\* clearRetryHistory(document.uri.toString()) is called while the map has
\* entries; the call is on record with the map it found, and the observation
\* ends with it
CallClearRetryHistory ==
    /\ call.op = "recovery" /\ ~call.done
    /\ DOMAIN retryAttempts # {}
    /\ \E d \in RecoveryDocuments :
         /\ retryAttempts' = clearRetryHistory(retryAttempts, d)
         /\ call' = [call EXCEPT !.procs = Retired(@), !.done = TRUE,
                                 !.cleared = [called |-> TRUE, doc |-> d,
                                              before |-> getRetryStatistics(retryAttempts)]]
    /\ RecoveryUnchanged

RecoveryNext ==
    \/ recoverFromDocumentModificationFailure
    \/ RecoveryDelayDone
    \/ RetryFunctionSucceeds
    \/ RetryFunctionFails
    \/ RetryFunctionThrows
    \/ CloseRecoveryDocument
    \/ CallClearRetryHistory

SpecRecovery == RecoveryInit /\ [][RecoveryNext]_vars

-----------------------------------------------------------------------------
(* Expected results, stated on the tokens the inputs were built from *)

LowerToken(tok) ==
    CASE tok = "TXT" -> "txt"
      [] tok = "Md" -> "md"
      [] OTHER -> tok

LanguageType(languageId) ==
    CASE languageId = "plaintext" -> "txt"
      [] languageId = "log" -> "log"
      [] languageId = "markdown" -> "md"
      [] OTHER -> null

\* the extension of a name is its last segment, when a non-empty one follows a "."
HasExtension(segs) == Len(segs) >= 2 /\ segs[Len(segs)] # ""

ExpectedFileType(segs, languageId) ==
    IF HasExtension(segs) /\ LowerToken(segs[Len(segs)]) \in SupportedFileType
    THEN LowerToken(segs[Len(segs)])
    ELSE LanguageType(languageId)

TwoDigits(n) == <<Digits[(n \div 10) + 1], Digits[(n % 10) + 1]>>

YearText(y) ==
    CASE y = 2024 -> <<"2", "0", "2", "4">>
      [] y = 2025 -> <<"2", "0", "2", "5">>

\* hour of the day -> hour on the 12-hour clock
Hour12 ==
    [h \in 0..23 |->
        CASE h = 0 -> 12
          [] h \in 1..12 -> h
          [] h \in 13..23 -> h - 12]

Meridiem == [h \in 0..23 |-> IF h \in 0..11 THEN <<"A", "M">> ELSE <<"P", "M">>]

DatePart(date) ==
    YearText(date.year) \o <<"-">> \o TwoDigits(date.month + 1) \o <<"-">>
      \o TwoDigits(date.date)

-----------------------------------------------------------------------------
(* Properties of the pure functions (SpecPure) *)

C7_TwentyFourHour ==
    (call.op = "formatTimestamp" /\ call.done) =>
        call.ret = DatePart(call.date) \o <<" ">> \o TwoDigits(call.date.hours)
                     \o <<":">> \o TwoDigits(call.date.minutes)

C9_HandlerFormats ==
    (call.op = "handlerFormatTimestamp" /\ call.done) =>
        LET ts == call.timestamp
            r == call.ret
            skip == IF call.handler = "MarkdownFileHandler" THEN 4 ELSE 1
        IN  /\ Len(r) = Len(ts) + skip + 1
            /\ r[1] = NL
            /\ r[Len(r)] = NL
            /\ SubSeq(r, skip + 1, Len(r) - 1) = ts
            /\ call.handler = "MarkdownFileHandler" => SubSeq(r, 2, 4) = <<"#", "#", " ">>
            /\ TextFileHandler_formatTimestamp(ts) = LogFileHandler_formatTimestamp(ts)

\* the markdown handler has formatted the empty timestamp
C9_Witness ==
    /\ call.op = "handlerFormatTimestamp" /\ call.done
    /\ call.handler = "MarkdownFileHandler"
    /\ call.timestamp = <<>>
    /\ call.ret = <<NL, "#", "#", " ", NL>>

-----------------------------------------------------------------------------
(* Properties of the pipeline (Spec) *)

\* the text of the buffer
Text(lines) == joinLines(lines)

\* the lines the document was created with
InputLines ==
    IF hist.input.noLines THEN <<>>
    ELSE ContentLines(hist.input.padL, hist.input.core, hist.input.padR, hist.input.rest)

\* the document's name ends in .txt, .log or .md
SupportedExtension ==
    /\ HasExtension(hist.input.segs)
    /\ LowerToken(hist.input.segs[Len(hist.input.segs)]) \in SupportedFileType

\* the document's name ends in an extension other than .txt, .log and .md
UnsupportedExtension ==
    /\ HasExtension(hist.input.segs)
    /\ LowerToken(hist.input.segs[Len(hist.input.segs)]) \notin SupportedFileType

\* the first line, trimmed, is the marker
MarkerLine == ~hist.input.noLines /\ hist.input.core = ".LOG"

\* the first line is the marker with whitespace around it
PaddedMarkerLine == MarkerLine /\ (hist.input.padL # <<>> \/ hist.input.padR # <<>>)

\* no edit has been requested of the host and the buffer is as it was created
Untouched ==
    /\ hist.hostCalls = 0
    /\ hist.applied = <<>>
    /\ pending = <<>>
    /\ task.pc = "idle"
    /\ doc.lines = InputLines

\* the timestamp of PipelineClock as the timestamp service writes it
ClockTimestamp ==
    <<"2","0","2","5","-","0","1","-","0","5"," ","0","1",":","0","7"," ","P","M">>

\* the formatted insertion of a file type
ExpectedInsertion(fileType) ==
    (IF fileType = "md" THEN <<NL, "#", "#", " ">> ELSE <<NL>>) \o ClockTimestamp \o <<NL>>

\* the line break that separates the insertion from a non-empty last line
Separator(lines) == IF lines[Len(lines)] # <<>> THEN <<NL>> ELSE <<>>

\* the current event has ended
EventEnded == hist.opens >= 1 /\ task.pc = "idle"

\* C1: a document whose trimmed first line is not ".LOG", or that has no
\* lines, is never edited: no apply-edit is requested and its lines stay as
\* they were, whatever its extension and language id.
C1_NoMarkerNoEdit == ~MarkerLine => Untouched

\* both open events of a .txt document with ".LOG" on line 2 have been skipped
C1_Witness ==
    /\ hist.input.core = "notes" /\ hist.input.rest = ".LOG"
    /\ hist.input.segs = <<"a", "txt">>
    /\ hist.opens = 2 /\ EventEnded
    /\ hist.result = Skipped

\* C2: an open event of a modifiable .txt/.log/.md document with the marker
\* line requests an edit, and when the host accepts it the event ends with
\* exactly one insertion applied, in the format of the type, appended to the
\* text the buffer had before the event.
C2_OneInsertionAppended ==
    (/\ MarkerLine /\ SupportedExtension
     /\ doc.scheme \in {"file", "untitled"} /\ ~hist.closedAtOpen
     /\ hist.opens >= 1) =>
        /\ hist.hostCalls >= 1
        /\ (EventEnded /\ hist.accepted) =>
              LET fileType == LowerToken(hist.input.segs[Len(hist.input.segs)])
              IN  /\ Len(hist.applied) = 1
                  /\ Text(doc.lines) = Text(hist.before) \o Separator(hist.before)
                                         \o ExpectedInsertion(fileType)
                  /\ hist.result.kind = "result"
                  /\ hist.result.success /\ hist.result.documentModified

\* C3: a document with the marker line and an extension other than txt, log
\* and md is left untouched, whatever its language id.
C3_UnsupportedExtensionUntouched ==
    (MarkerLine /\ UnsupportedExtension) => Untouched

\* C5: a .txt document whose first line is the marker with whitespace around
\* it is not processed.
C5_PaddedMarkerUntouched ==
    (PaddedMarkerLine /\ hist.input.segs = <<"a", "txt">>) => Untouched

\* C10 as claimed: the string written by a successful processDocument is the
\* formatted insertion, the string that the result's timestamp field carries.
C10_WrittenIsFormatted ==
    (EventEnded /\ hist.accepted) =>
        /\ hist.written = hist.result.timestamp
        /\ hist.result.timestamp =
              ExpectedInsertion(ExpectedFileType(hist.input.segs, hist.input.languageId))

\* C10 amended: the result's timestamp field carries the formatted insertion,
\* and the string written is that insertion, with one line break before it
\* when the last line of the document was not empty.
C10_WrittenIsSeparatedFormatted ==
    (EventEnded /\ hist.accepted) =>
        /\ hist.written = Separator(hist.before) \o hist.result.timestamp
        /\ hist.result.timestamp =
              ExpectedInsertion(ExpectedFileType(hist.input.segs, hist.input.languageId))

\* a document that ends in a non-empty line got a line break and the insertion
C10_Witness ==
    /\ EventEnded /\ hist.accepted
    /\ hist.opens = 1 /\ hist.input.rest = "notes"
    /\ hist.input.segs = <<"a", "log">>
    /\ hist.written = <<NL, NL>> \o ClockTimestamp \o <<NL>>
    /\ hist.result.timestamp = <<NL>> \o ClockTimestamp \o <<NL>>

\* the type of the opened document as its extension, or else its language id, gives it
InputFileType == ExpectedFileType(hist.input.segs, hist.input.languageId)

\* the timestamp line of a file type
TimestampLine(fileType) ==
    (IF fileType = "md" THEN <<"#", "#", " ">> ELSE <<>>) \o ClockTimestamp

\* the document was created as ".LOG" followed by one line break
MarkerAndLineBreak ==
    /\ ~hist.input.noLines /\ hist.input.core = ".LOG"
    /\ hist.input.padL = <<>> /\ hist.input.padR = <<>>
    /\ hist.input.rest = "blank"

\* C11: a .txt, .log or .md document created as ".LOG" and one line break has,
\* after its open event was processed, at least 3 lines, ".LOG" on line 0 and
\* the timestamp line (with "## " before it for .md) on line 1.
C11_TimestampOnLineOne ==
    (/\ MarkerAndLineBreak /\ SupportedExtension
     /\ doc.scheme = "file"
     /\ hist.opens = 1 /\ EventEnded /\ hist.accepted) =>
        /\ Len(doc.lines) >= 3
        /\ doc.lines[1] = Chars(".LOG")
        /\ doc.lines[2] = TimestampLine(InputFileType)

\* n copies of a sequence one after the other
RECURSIVE Repeat(_, _)
Repeat(x, n) == IF n = 0 THEN <<>> ELSE x \o Repeat(x, n - 1)

\* C12: when every open event of a qualifying document so far was processed
\* to success, the buffer is the text it was created with followed by one
\* insertion per open, all in the format of the type, and the event left the
\* text it found at the start of the buffer.
C12_OneInsertionPerOpen ==
    (/\ MarkerLine /\ SupportedExtension
     /\ hist.opens >= 1 /\ EventEnded /\ hist.completed = hist.opens) =>
        /\ Text(doc.lines) = Text(InputLines) \o Separator(InputLines)
                               \o Repeat(ExpectedInsertion(InputFileType), hist.opens)
        /\ startsWith(Text(doc.lines), Text(hist.before))

\* the document cannot be modified: it was closed when the event arrived, or
\* it is backed by a scheme other than file and is not untitled
NotModifiable ==
    \/ hist.closedAtOpen
    \/ doc.scheme # "file" /\ ~doc.isUntitled

\* C13: the open event of a qualifying document that cannot be modified ends
\* with a failed result (success false, documentModified false, state failed,
\* the read-only / cannot be modified error), without any apply-edit call or
\* cursor call, and with the lines unchanged.
C13_NotModifiableFails ==
    (/\ MarkerLine /\ InputFileType # null
     /\ hist.opens >= 1 /\ NotModifiable) =>
        /\ EventEnded
        /\ hist.result.kind = "result"
        /\ ~hist.result.success /\ ~hist.result.documentModified
        /\ hist.result.processingState = "failed"
        /\ hist.result.error = "Document is read-only or cannot be modified"
        /\ hist.hostCalls = 0 /\ hist.cursorCalls = 0
        /\ doc.lines = hist.before

\* a document was closed before its second open event, which failed
C13_Witness ==
    /\ MarkerLine /\ hist.input.segs = <<"a", "txt">>
    /\ hist.opens = 2 /\ hist.closedAtOpen /\ doc.scheme = "file"
    /\ hist.completed = 1
    /\ hist.result.processingState = "failed"
    /\ hist.hostCalls = 0

\* C14: when the insertion succeeded and positionCursorAtEnd failed, the
\* result is still success, documentModified, state completed, with the
\* formatted timestamp, and no status-bar notice is shown.
C14_CursorFailureStillSuccess ==
    (EventEnded /\ hist.accepted /\ hist.cursor.called /\ ~hist.cursor.success) =>
        /\ hist.result.kind = "result"
        /\ hist.result.success /\ hist.result.documentModified
        /\ hist.result.processingState = "completed"
        /\ hist.result.timestamp = ExpectedInsertion(InputFileType)
        /\ hist.statusBar = <<>>

\* the insertion into a .md document succeeded with no active editor
C14_Witness ==
    /\ EventEnded /\ hist.accepted /\ hist.input.editor = "none"
    /\ hist.input.segs = <<"a", "md">>
    /\ hist.cursor.called /\ ~hist.cursor.success
    /\ hist.result.success /\ hist.result.documentModified

\* the current event ended with a failure of insertTextAtEnd
InsertTextAtEndFailed == EventEnded /\ hist.hostCalls >= 1 /\ ~hist.accepted

EndRange(lines) ==
    LET end == [line |-> Len(lines) - 1, character |-> Len(lines[Len(lines)])]
    IN  [anchor |-> end, active |-> end]

-----------------------------------------------------------------------------
(* Properties of insertTextAtEnd (SpecPure) *)

\* the line break insertTextAtEnd puts before a text for these lines
BreakBefore(lines) == IF lines[Len(lines)] # <<>> THEN <<NL>> ELSE <<>>

\* the line break insertTextAtEnd puts after a text
BreakAfter(text) == IF text # <<>> /\ text[Len(text)] = NL THEN <<>> ELSE <<NL>>

\* the edit insertTextAtEnd is to request for a document and a text
InsertionRule ==
    LET lines == call.d.lines
        last == lines[Len(lines)]
    IN  /\ call.ret.success
        /\ call.ret.edit = [line |-> Len(lines) - 1, character |-> Len(last),
                            text |-> BreakBefore(lines) \o call.text \o BreakAfter(call.text)]
        /\ Text(call.ret.lines) = Text(lines) \o BreakBefore(lines) \o call.text
                                     \o BreakAfter(call.text)

\* the text handler's insertion goes into ".LOG", "notes"
NotesExample ==
    /\ call.op = "insertTextAtEnd" /\ call.done
    /\ call.core = ".LOG" /\ call.rest = "notes"
    /\ call.text = ExpectedInsertion("txt")

\* C19 as claimed: insertTextAtEnd inserts at the end of the last line the
\* text with a line break before it exactly when the last line is not empty
\* and a line break after it exactly when it does not end in one, and ".LOG",
\* "notes" becomes the four lines ".LOG", "notes", "", timestamp.
C19_FourLines ==
    (call.op = "insertTextAtEnd" /\ call.done) =>
        /\ InsertionRule
        /\ NotesExample =>
              call.ret.lines = <<Chars(".LOG"), Chars("notes"), <<>>, ClockTimestamp>>

\* C19 amended: the same rule, and ".LOG", "notes" becomes the lines ".LOG",
\* "notes", "", timestamp and an empty last line: one blank line separates the
\* timestamp from the notes and the text ends in a line break.
C19_BlankLineThenTimestamp ==
    (call.op = "insertTextAtEnd" /\ call.done) =>
        /\ InsertionRule
        /\ NotesExample =>
              call.ret.lines = <<Chars(".LOG"), Chars("notes"), <<>>, ClockTimestamp, <<>>>>

\* the example has been inserted after a non-empty last line
C19_Witness ==
    /\ NotesExample
    /\ call.ret.edit.line = 1 /\ call.ret.edit.character = 5
    /\ call.ret.edit.text = <<NL, NL>> \o ClockTimestamp \o <<NL>>
    /\ Len(call.ret.lines) = 5

-----------------------------------------------------------------------------
(* Properties of the monitor (SpecMonitor) *)

\* the calls made on the monitor so far
MonitorLog == IF call.op = "monitor" THEN call.log ELSE <<>>

\* C17: the monitor starts inactive; startMonitoring succeeds exactly when it
\* is inactive and then makes it active with one subscription, and when it is
\* active it fails with 'File monitoring is already active', leaving it
\* active with no further subscription; stopMonitoring succeeds exactly when
\* it is active and then makes it inactive, and when it is inactive it fails
\* with 'File monitoring is not active', leaving it inactive.
C17_StartStopLifecycle ==
    /\ MonitorLog = <<>> => ~isActive
    /\ \A i \in 1..Len(MonitorLog) :
          LET e == MonitorLog[i]
          IN  /\ e.activeBefore = (IF i = 1 THEN FALSE ELSE MonitorLog[i - 1].activeAfter)
              /\ e.listenersBefore = (IF e.activeBefore THEN 1 ELSE 0)
              /\ e.op = "startMonitoring" =>
                    /\ e.ret.success = ~e.activeBefore
                    /\ e.activeAfter
                    /\ e.listenersAfter = 1
                    /\ ~e.ret.success => e.ret.error = "File monitoring is already active"
              /\ e.op = "stopMonitoring" =>
                    /\ e.ret.success = e.activeBefore
                    /\ ~e.activeAfter
                    /\ e.listenersAfter = 0
                    /\ ~e.ret.success => e.ret.error = "File monitoring is not active"

\* start, start, stop, stop: the second of each pair failed
C17_Witness ==
    /\ Len(MonitorLog) = 4
    /\ MonitorLog[1].op = "startMonitoring" /\ MonitorLog[1].ret.success
    /\ MonitorLog[2].op = "startMonitoring" /\ ~MonitorLog[2].ret.success
    /\ MonitorLog[3].op = "stopMonitoring" /\ MonitorLog[3].ret.success
    /\ MonitorLog[4].op = "stopMonitoring" /\ ~MonitorLog[4].ret.success
    /\ ~isActive /\ listeners = 0

C40_EveryEventFinishes ==
    (task.pc # "idle") ~> (task.pc = "idle" /\ hist.result.kind = "result")

\* an event has finished after the longest path: two apply-edit calls, then
\* three recovery attempts of two calls each, all refused
C40_Witness ==
    /\ EventEnded
    /\ hist.hostCalls = (1 + DocumentEditor_maxRetries)
                          * (1 + ErrorRecoveryService_maxRetries)
    /\ hist.result.kind = "result"
    /\ hist.result.error = "Maximum retry attempts exceeded"

(* Properties of the monitor on a throwing host (SpecMonitorThrows) *)

\* C38: in every state reached by startMonitoring, stopMonitoring and dispose
\* calls, failed calls and calls whose host call throws included,
\* isMonitoring() is true exactly when the monitor holds a live subscription
\* to the document-open events, and it holds at most one.
C38_MonitoringIffSubscribed ==
    /\ isMonitoring <=> listeners = 1
    /\ listeners <= 1

-----------------------------------------------------------------------------
(* Properties of onDocumentOpened and handleDocumentOpened (SpecPure) *)

\* an element of a sequence
Occurs(x, seq) == \E i \in 1..Len(seq) : seq[i] = x

\* the type the classifier reports for the document of a monitor call
CallFileType == ExpectedFileType(call.segs, call.languageId)

\* content analysis of the call fails: the analyzer fails or throws, or the
\* type is not supported
AnalysisFails == call.services.analyzer \in {"failing", "throwing"} \/ CallFileType = null

\* the analysis succeeds and the marker condition is met
AnalysisQualifies == ~AnalysisFails /\ call.core = ".LOG" /\ call.d.unreadable = "no"

\* the analysis succeeds and the marker condition is not met: the first line
\* is not the marker or cannot be read
AnalysisSkips ==
    /\ ~AnalysisFails /\ call.d.unreadable # "lineCount"
    /\ (call.core # ".LOG" \/ call.d.unreadable = "lineAt")

\* the timestamp is asked for and its generation fails
TimestampFails ==
    AnalysisQualifies /\ call.services.timestampService \in {"failing", "empty", "throwing"}

\* the handler of the type is looked up and none is registered
HandlerMissing ==
    /\ AnalysisQualifies /\ call.services.timestampService = "TimestampService"
    /\ CallFileType \notin call.services.fileHandlers

\* the message that names a missing type
MissingTypeMessage ==
    CASE CallFileType = "txt" -> "No handler found for file type: txt"
      [] CallFileType = "log" -> "No handler found for file type: log"
      [] CallFileType = "md" -> "No handler found for file type: md"
      [] OTHER -> "none"

\* C28: onDocumentOpened returns success false, documentModified false,
\* state failed, and calls no handler, whenever content analysis fails (also
\* for an unsupported type), timestamp generation fails, or no handler is
\* registered for the type; in the last case the error names the type.
C28_FailuresBeforeHandler ==
    (call.op = "onDocumentOpened" /\ call.done
     /\ (AnalysisFails \/ TimestampFails \/ HandlerMissing)) =>
        /\ call.ret.result.kind = "result"
        /\ ~call.ret.result.success /\ ~call.ret.result.documentModified
        /\ call.ret.result.processingState = "failed"
        /\ ~Occurs("processDocument", call.ret.invoked)
        /\ HandlerMissing => call.ret.result.error = MissingTypeMessage

\* a.Md with the marker and no markdown handler registered has failed
C28_Witness ==
    /\ call.op = "onDocumentOpened" /\ call.done
    /\ call.segs = <<"a", "Md">> /\ call.core = ".LOG"
    /\ call.services = [analyzer |-> "ContentAnalyzer",
                        timestampService |-> "TimestampService",
                        fileHandlers |-> {"txt", "log"}]
    /\ call.ret.result.error = "No handler found for file type: md"
    /\ call.ret.invoked = <<"analyzeContent", "getCurrentTimestamp">>

\* C29: when the analysis succeeds with shouldProcess false, onDocumentOpened
\* returns success true, documentModified false, state skipped, and calls
\* neither the timestamp service nor a handler.
C29_SkippedWithoutServices ==
    (call.op = "onDocumentOpened" /\ call.done /\ AnalysisSkips) =>
        /\ call.ret.result.kind = "result"
        /\ call.ret.result.success /\ ~call.ret.result.documentModified
        /\ call.ret.result.processingState = "skipped"
        /\ ~Occurs("getCurrentTimestamp", call.ret.invoked)
        /\ ~Occurs("processDocument", call.ret.invoked)

\* a.txt without the marker was skipped by a monitor whose timestamp service
\* fails and that has no handlers
C29_Witness ==
    /\ call.op = "onDocumentOpened" /\ call.done
    /\ call.segs = <<"a", "txt">> /\ call.core = "notes"
    /\ call.services = [analyzer |-> "ContentAnalyzer", timestampService |-> "failing",
                        fileHandlers |-> {}]
    /\ call.ret.result = Skipped
    /\ call.ret.invoked = <<"analyzeContent">>

\* C30: for a document of no supported type handleDocumentOpened returns at
\* once: no content analysis, no timestamp generation, no handler, the retry
\* history is not cleared and no error is logged.
C30_UnsupportedTypeReturnsAtOnce ==
    (call.op = "handleDocumentOpened" /\ call.done /\ CallFileType = null
     /\ call.services.analyzer # "throwing") =>
        /\ call.ret.invoked = <<"getFileType">>
        /\ call.ret.result = Filtered
        /\ ~call.ret.clearRetryHistory
        /\ call.ret.errors = 0

\* a.py (python) with the marker was filtered
C30_Witness ==
    /\ call.op = "handleDocumentOpened" /\ call.done
    /\ call.segs = <<"a", "py">> /\ call.languageId = "python" /\ call.core = ".LOG"
    /\ call.ret.stage = "filtered"
    /\ call.ret.errors = 0

-----------------------------------------------------------------------------
(* Properties of the recovery service (SpecRecovery) *)

\* the calls of recoverFromDocumentModificationFailure on record: those in
\* flight and those that returned in the last step
Recoveries ==
    IF call.op = "recovery"
    THEN {call.procs[i] : i \in {j \in 1..Len(call.procs) : call.procs[j].pc # "gone"}}
    ELSE {}

\* the calls that have just returned; retryAttempts is the map they left
ReturnedRecoveries == {p \in Recoveries : p.pc = "returned"}

\* the document of a call has been open since the call started
StillOpen(p) == p.doc.fileName \notin call.closed

\* C21: on an open document with no recorded attempts the retry function is
\* invoked at most 3 times; the call stops at the first invocation that
\* succeeds and returns success after exactly that many invocations; if all
\* 3 fail it returns failure with DOCUMENT_MODIFICATION_FAILED after exactly
\* 3 invocations.
C21_AtMostThreeAttempts ==
    \A p \in Recoveries :
        (p.start = 0 /\ StillOpen(p)) =>
            /\ p.invocations <= 3
            /\ p.pc # "returned" => p.successes = 0
            /\ (p.pc = "returned" /\ p.success) =>
                   p.successes = 1 /\ p.invocations \in 1..3
            /\ (p.pc = "returned" /\ ~p.success) =>
                   /\ p.successes = 0 /\ p.invocations = 3
                   /\ p.errorCode = "DOCUMENT_MODIFICATION_FAILED"

\* a call whose third invocation was the first to succeed has returned
C21_Witness ==
    /\ \E p \in ReturnedRecoveries :
          /\ p.start = 0 /\ StillOpen(p)
          /\ p.invocations = 3
          /\ p.success /\ p.successes = 1
    /\ retryAttempts = NoAttempts

\* C22: once the document is closed the retry function is not invoked again
\* in that recovery, which returns failure with the message 'Document was
\* closed during recovery attempt'; a document closed when the recovery
\* starts gets no invocation.
C22_NoAttemptOnceClosed ==
    \A p \in Recoveries :
        /\ ~p.invokedClosed
        /\ p.closedAtStart => p.invocations = 0
        /\ (p.pc = "returned" /\ ~StillOpen(p) /\ ~p.success) =>
               p.error = "Document was closed during recovery attempt"

C24_EntryKeptAfterExhaustion ==
    \A p \in ReturnedRecoveries :
        (~p.success /\ p.invocations = 3) =>
            /\ recoveryKeyOf(p.doc, p.operation) \in DOMAIN getRetryStatistics(retryAttempts)
            /\ getRetryStatistics(retryAttempts)[recoveryKeyOf(p.doc, p.operation)] = 3

\* C25: every call on an open document starts from a fresh count: it reads no
\* attempts of another call, makes its first attempt without a wait, and
\* makes exactly 3 attempts when the retry function keeps failing.
C25_FreshCount ==
    \A p \in Recoveries :
        (~p.closedAtStart) =>
            /\ p.start = 0
            /\ Len(p.waits) > 0 => p.waits[1] = 0
            /\ (p.pc = "returned" /\ ~p.success /\ StillOpen(p)) => p.invocations = 3

\* the keys of a document
KeysOf(d) == {uriString(d) \o <<"-">> \o OperationChars(o) : o \in {"applyEdit", "save"}}

\* C26: clearRetryHistory(document) removes all entries of that document and
\* no entry of another document.
C26_ClearsOnlyThatDocument ==
    (call.op = "recovery" /\ call.cleared.called) =>
        retryAttempts = [k \in DOMAIN call.cleared.before \ KeysOf(call.cleared.doc) |->
                            call.cleared.before[k]]

\* C27: in a recovery that starts with no recorded attempts the waits before
\* the attempts are 0, 500 and 1000 ms.
C27_LinearWaits ==
    \A p \in Recoveries :
        p.start = 0 =>
            /\ Len(p.waits) <= 3
            /\ \A n \in 1..Len(p.waits) :
                  p.waits[n] = (n - 1) * 500 /\ p.waits[n] <= 1000

\* a call is making its third attempt, after no wait, 500 ms and 1000 ms
C27_Witness ==
    \E p \in Recoveries :
        p.start = 0 /\ p.pc = "retryFunction" /\ p.waits = <<0, 500, 1000>>

-----------------------------------------------------------------------------
(* Properties of the pipeline under stops, timeouts and late edits (Spec) *)

\* C33: while the monitor is not active no edit, cursor move or status-bar
\* notice is requested, also not by an event that was in flight when the
\* monitor was stopped.
C33_NothingWhileInactive ==
    [][~isActive =>
          /\ hist'.hostCalls <= hist.hostCalls
          /\ hist'.cursorCalls <= hist.cursorCalls
          /\ Len(hist'.statusBar) <= Len(hist.statusBar)]_vars

\* C35: for one open event at most one edit is applied to the document, also
\* when an apply-edit call times out or fails and is retried.
C35_AtMostOneEditApplied == Len(hist.applied) <= 1

\* C36: when the result of an open event reports documentModified false, the
\* buffer is as it was before the event.
C36_NotModifiedMeansUnchanged ==
    (EventEnded /\ hist.result.kind = "result" /\ ~hist.result.documentModified) =>
        doc.lines = hist.before

\* C37: every insertion lands at the end of the buffer as it is when the edit
\* is applied: the text that was there stays in front of it.
C37_InsertionsAtCurrentEnd ==
    [][startsWith(Text(doc'.lines), Text(doc.lines))]_vars

\* one of the three shapes of a Processing Result
ResultShape(r) ==
    \/ /\ r.success /\ r.documentModified /\ r.processingState = "completed"
       /\ r.timestamp # null /\ r.timestamp # <<>>
    \/ r.success /\ ~r.documentModified /\ r.processingState = "skipped"
    \/ /\ ~r.success /\ ~r.documentModified /\ r.processingState = "failed"
       /\ r.error # null

\* C39: every Processing Result an event ends with is completed with a
\* timestamp, skipped, or failed with an error message; no other state and
\* no modified failure is returned.
C39_ThreeShapes == hist.result.kind = "result" => ResultShape(hist.result)

\* the second event of a.md has ended failed after the retries were used up;
\* the first one completed
C39_Witness ==
    /\ EventEnded /\ hist.opens = 2 /\ hist.completed = 1
    /\ hist.input.segs = <<"a", "md">>
    /\ hist.result.kind = "result" /\ hist.result.processingState = "failed"
    /\ hist.result.error = "Maximum retry attempts exceeded"
    /\ hist.statusBar # <<>>

-----------------------------------------------------------------------------
(* Properties of the event handler: retry history, exceptions, handlers     *)
(* (SpecPure)                                                               *)

\* a call of the monitor has been made
MonitorCallDone ==
    call.op \in {"onDocumentOpened", "handleDocumentOpened"} /\ call.done

\* the retry entries of the document of the call
EntriesOfDocument ==
    {k \in DOMAIN retryAttempts :
        k \in {uriString(call.d) \o <<"-">> \o OperationChars(o) :
                  o \in {"applyEdit", "save"}}}

\* the retry entries that were in the map when the document was opened
EntriesAtOpen ==
    IF call.lingering
    THEN {uriString(call.d) \o <<"-", "a", "p", "p", "l", "y", "E", "d", "i", "t">>,
          <<"f", "i", "l", "e", ":", "b", "-", "a", "p", "p", "l", "y", "E", "d", "i", "t">>}
    ELSE {}

\* C31: after handleDocumentOpened finished an event whose result has
\* success true the retry history holds no entry for the document; after a
\* result with success false the entries are as they were.
C31_ClearedOnSuccessOnly ==
    (call.op = "handleDocumentOpened" /\ call.done /\ call.ret.result.kind = "result") =>
        /\ call.ret.result.success => EntriesOfDocument = {}
        /\ ~call.ret.result.success => DOMAIN retryAttempts = EntriesAtOpen

\* a.txt with lingering entries was opened and skipped: its entry is gone,
\* the other document's is there
C31_Witness ==
    /\ call.op = "handleDocumentOpened" /\ call.done
    /\ call.segs = <<"a", "txt">> /\ call.core = "notes" /\ call.lingering
    /\ call.ret.result = Skipped
    /\ DOMAIN retryAttempts =
          {<<"f", "i", "l", "e", ":", "b", "-", "a", "p", "p", "l", "y", "E", "d", "i", "t">>}

\* something in the call fails or throws: the classifier, the timestamp
\* service, the handler, or a read of the document
SomethingFails ==
    \/ call.services.analyzer # "ContentAnalyzer"
    \/ call.services.timestampService # "TimestampService"
    \/ call.handlerResult # "completed"
    \/ call.d.unreadable # "no"

\* C32: no exception leaves handleDocumentOpened or onDocumentOpened;
\* onDocumentOpened always returns a Processing Result, and when a service,
\* the handler or a read of the document fails or throws, the result is
\* failed or skipped with the document unmodified.
C32_NoExceptionEscapes ==
    MonitorCallDone =>
        /\ ~call.ret.threw
        /\ call.op = "onDocumentOpened" => call.ret.result.kind = "result"
        /\ call.ret.result.kind \in {"result", "filtered", "caught"}
        /\ (call.ret.result.kind = "result" /\ SomethingFails) =>
               /\ call.ret.result.processingState \in {"failed", "skipped"}
               /\ ~call.ret.result.documentModified

\* the handler of a.txt threw and onDocumentOpened returned a failed result
C32_Witness ==
    /\ call.op = "onDocumentOpened" /\ call.done
    /\ call.segs = <<"a", "txt">> /\ call.core = ".LOG"
    /\ call.handlerResult = "throws"
    /\ Occurs("processDocument", call.ret.invoked)
    /\ call.ret.result.processingState = "failed"
    /\ call.ret.result.error = "thrown error message"
    /\ ~call.ret.threw

\* C34: whenever onDocumentOpened hands a document to the handler of the
\* detected type, that handler's canHandle(document) is true.
C34_DelegatedHandlerCanHandle ==
    (call.op = "onDocumentOpened" /\ call.done /\ call.delegated.handler # null) =>
        call.delegated.canHandle

====
